---- MODULE Spec2Model ----
(***************************************************************************)
(* Model of the BSSOD parser tool (src/parser-tool): the dump reader, the  *)
(* header parser, the stack-trace parser, the driver scavenger, the        *)
(* bugcheck analyzer and the orchestrator analyze_dump.                    *)
(*                                                                         *)
(* Representation.  A dump file is a length and a sparse byte map (every   *)
(* byte that is not listed is 0).  Python integers are unbounded, TLC's    *)
(* are 32 bits wide, so an unsigned integer is kept as the little-endian   *)
(* tuple of its bytes without high zero bytes (0 is <<>>): this is the     *)
(* value struct.unpack('<I' / '<Q') yields for the bytes of the file.      *)
(* A Python string is a tuple of one-character strings or of tokens; an    *)
(* Optional value is <<>> (None) or <<v>>.                                 *)
(***************************************************************************)
EXTENDS Integers, Sequences, FiniteSets, TLC

VARIABLES
    fs,                 \* the file system entry at dump_path
    dump_path,          \* DumpAnalyzer.dump_path
    create_zip,         \* analyze_dump's create_zip argument
    pc,                 \* position inside analyze_dump / analyze
    parser_notes,       \* metadata.parser_notes
    system_info,        \* Optional[SystemInfo]
    crash_summary,      \* Optional[CrashSummary]
    bugcheck_analysis,  \* Optional[BugcheckAnalysis]
    stack_trace,        \* Optional[StackTrace]
    drivers,            \* Optional[DriverListResult]
    result,             \* Optional[CompleteAnalysis] returned by analyze
    zip_path,           \* Optional path returned by analyze_dump
    archives,           \* the ZIP files written so far
    bc_args,            \* arguments of a direct analyze_bugcheck call
    open_handles,       \* the components that hold an open read handle
    upload,             \* the bytes handed to ZipValidator.validate_and_extract
    validation,         \* Optional outcome of validate_and_extract
    sessions,           \* ConversationStore._sessions: its keys, as inserted
    contexts,           \* the ConversationContext objects created so far
    now,                \* datetime.now()
    handlers,           \* the send_chat_message requests in flight
    gui,                \* the fields and buttons of BSODAnalyzerApp
    workers,            \* the analysis threads the GUI has started
    exports             \* the archives written by Export ZIP

vars == <<fs, dump_path, create_zip, pc, parser_notes, system_info,
          crash_summary, bugcheck_analysis, stack_trace, drivers, result,
          zip_path, archives, bc_args, open_handles, upload, validation,
          sessions, contexts, now, handlers, gui, workers, exports>>

\* the state of the ConversationStore and its requests (src/backend)
storeVars == <<sessions, contexts, now, handlers>>

\* the state of the GUI (src/parser-tool/gui_app.py)
guiVars == <<gui, workers, exports>>

\* the state outside the parser: the backend services and the GUI
serviceVars == <<upload, validation, sessions, contexts, now, handlers,
                 gui, workers, exports>>

None == <<>>
Some(v) == <<v>>
IsSome(o) == o # <<>>

\* the concurrent send_chat_message requests the model follows
MaxHandlers == 2
Handlers == 1..MaxHandlers

\* BSODAnalyzerApp.__init__: the state variables and the button states
GuiInit ==
    /\ gui = [dump_path |-> None, analysis_result |-> None,
              zip_path |-> None, is_analyzing |-> FALSE,
              analyze_btn |-> "disabled", export_btn |-> "disabled",
              open_folder_btn |-> "disabled"]
    /\ workers = <<>>
    /\ exports = {}

\* a fresh ConversationStore, no request in flight
StoreEmpty ==
    /\ sessions = <<>>
    /\ contexts = <<>>
    /\ now = 0
    /\ handlers = [h \in Handlers |-> [pc |-> "idle", session_id |-> 0]]
Get(o) == o[1]

Min(a, b) == IF a < b THEN a ELSE b
Max(a, b) == IF a > b THEN a ELSE b

(***************************************************************************)
(* Unsigned integers as little-endian byte tuples.                         *)
(***************************************************************************)
RECURSIVE Norm(_)
Norm(w) ==
    IF Len(w) > 0 /\ w[Len(w)] = 0 THEN Norm(SubSeq(w, 1, Len(w) - 1)) ELSE w

Zero == <<>>

\* an integer small enough for TLC arithmetic (below 2^16)
FitsNat(w) == Len(w) <= 2
NatOf(w) == IF Len(w) = 0 THEN 0
            ELSE IF Len(w) = 1 THEN w[1]
            ELSE w[1] + 256 * w[2]

HexDigits == <<"0", "1", "2", "3", "4", "5", "6", "7",
               "8", "9", "A", "B", "C", "D", "E", "F">>
LowerHexDigits == <<"0", "1", "2", "3", "4", "5", "6", "7",
                    "8", "9", "a", "b", "c", "d", "e", "f">>

RECURSIVE Repeat(_, _)
Repeat(c, n) == IF n <= 0 THEN <<>> ELSE <<c>> \o Repeat(c, n - 1)

RECURSIVE StripZeros(_)
StripZeros(ds) ==
    IF Len(ds) > 1 /\ ds[1] = "0" THEN StripZeros(Tail(ds)) ELSE ds

\* the digits of format(value, 'X'): most significant first, no leading zeros
RECURSIVE ByteDigits(_, _)
ByteDigits(w, k) ==
    IF k = 0 THEN <<>>
    ELSE <<HexDigits[(w[k] \div 16) + 1], HexDigits[(w[k] % 16) + 1]>>
         \o ByteDigits(w, k - 1)

UpperHex(w) == IF Len(w) = 0 THEN <<"0">> ELSE StripZeros(ByteDigits(w, Len(w)))

\* format(value, '0nX'): zero-padded to a minimum width of n digits
FormatX(w, n) == Repeat("0", n - Len(UpperHex(w))) \o UpperHex(w)

\* the value of one hexadecimal digit, either case, as int(s, 16) reads it
DigitValue(c) ==
    IF \E v \in 1..16 : HexDigits[v] = c
    THEN (CHOOSE v \in 1..16 : HexDigits[v] = c) - 1
    ELSE (CHOOSE v \in 1..16 : LowerHexDigits[v] = c) - 1

IsHexDigit(c) == \E v \in 1..16 : HexDigits[v] = c \/ LowerHexDigits[v] = c

\* digits (most significant first, even count) to little-endian bytes
RECURSIVE DigitsToBytes(_)
DigitsToBytes(ds) ==
    IF Len(ds) = 0 THEN <<>>
    ELSE DigitsToBytes(SubSeq(ds, 3, Len(ds)))
         \o <<16 * DigitValue(ds[1]) + DigitValue(ds[2])>>

\* int(s, 16): an optional "0x" prefix, then hexadecimal digits
ParseHex(s) ==
    LET ds == IF Len(s) >= 2 /\ s[1] = "0" /\ s[2] = "x"
              THEN SubSeq(s, 3, Len(s)) ELSE s
        ev == IF Len(ds) % 2 = 1 THEN <<"0">> \o ds ELSE ds
    IN  Norm(DigitsToBytes(ev))


(***************************************************************************)
(* The dump file and the byte-window readers.                              *)
(***************************************************************************)
\* bytes s placed at offset off
Put(off, s) == [i \in off..(off + Len(s) - 1) |-> s[i - off + 1]]

\* little-endian bytes of small numbers, as written into a file
LE16(n) == <<n % 256, n \div 256>>
U32(n) == <<n % 256, n \div 256, 0, 0>>
U64(n) == <<n % 256, n \div 256, 0, 0, 0, 0, 0, 0>>

NoData == [i \in {} |-> 0]

Byte(f, i) == IF i \in DOMAIN f.data THEN f.data[i] ELSE 0

\* file.seek(offset); file.read(size): fewer bytes at end of file
ReadAt(f, offset, size) ==
    [k \in 1..Min(size, Max(0, f.len - offset)) |-> Byte(f, offset + k - 1)]

DUMP_SIGNATURE_32 == <<80, 65, 71, 69, 68, 85, 77, 80>>   \* PAGEDUMP
DUMP_SIGNATURE_64 == <<80, 65, 71, 69, 68, 85, 54, 52>>   \* PAGEDU64

OFFSET_MAJOR_VERSION == 8
OFFSET_MINOR_VERSION == 12
OFFSET_MACHINE_IMAGE_TYPE == 48
OFFSET_NUMBER_PROCESSORS == 52
OFFSET_BUGCHECK_CODE == 56
OFFSET_BUGCHECK_PARAM1 == 64
OFFSET_BUGCHECK_PARAM2 == 72
OFFSET_BUGCHECK_PARAM3 == 80
OFFSET_BUGCHECK_PARAM4 == 88
OFFSET_DUMP_TYPE == 3992
OFFSET_SYSTEM_TIME == 4000
OFFSET_REQUIRED_DUMP_SPACE == 4136
OFFSET32_BUGCHECK_PARAM1 == 28
OFFSET32_BUGCHECK_PARAM2 == 32
OFFSET32_BUGCHECK_PARAM3 == 36
OFFSET32_BUGCHECK_PARAM4 == 40

StructError == "struct.error"

\* DumpFileReader._read_uint32 / _read_uint64: struct.unpack raises
\* struct.error when the slice is short (err), else yields the value v
ReaderUnpack(data, size) ==
    IF Len(data) = size THEN [err |-> FALSE, v |-> Norm(data)]
    ELSE [err |-> TRUE, v |-> Zero]
ReaderUint32(f, offset) == ReaderUnpack(ReadAt(f, offset, 4), 4)
ReaderUint64(f, offset) == ReaderUnpack(ReadAt(f, offset, 8), 8)

\* DumpFileReader.validate_signature: <<valid, is_64bit>>
validate_signature(f) ==
    LET sig_data == ReadAt(f, 0, 8)
    IN  IF sig_data = DUMP_SIGNATURE_64 THEN <<TRUE, TRUE>>
        ELSE IF sig_data = DUMP_SIGNATURE_32 THEN <<TRUE, FALSE>>
        ELSE <<FALSE, FALSE>>

\* MachineType(raw) / DumpType(raw): an unknown encoding maps to UNKNOWN
MachineType(raw) ==
    IF raw = <<76, 1>> THEN "I386"
    ELSE IF raw = <<100, 134>> THEN "AMD64"
    ELSE IF raw = <<192, 1>> THEN "ARM"
    ELSE IF raw = <<100, 170>> THEN "ARM64"
    ELSE "UNKNOWN"

DumpType(raw) ==
    IF raw = <<1>> THEN "FULL_DUMP"
    ELSE IF raw = <<2>> THEN "KERNEL_DUMP"
    ELSE IF raw = <<3>> THEN "BMP_DUMP"
    ELSE IF raw = <<4>> THEN "MINIDUMP"
    ELSE IF raw = <<5>> THEN "LIVEDUMP"
    ELSE "UNKNOWN"

\* DumpFileReader.parse_header on an opened file: the exception it raises
\* ("ValueError", "struct.error") or "none" with the DumpHeader
parse_header(f) ==
    LET v == validate_signature(f)
        is64 == v[2]
        major == ReaderUint32(f, OFFSET_MAJOR_VERSION)
        minor == ReaderUint32(f, OFFSET_MINOR_VERSION)
        machine == ReaderUint32(f, OFFSET_MACHINE_IMAGE_TYPE)
        nproc == ReaderUint32(f, OFFSET_NUMBER_PROCESSORS)
        code == ReaderUint32(f, OFFSET_BUGCHECK_CODE)
        p1 == IF is64 THEN ReaderUint64(f, OFFSET_BUGCHECK_PARAM1)
                      ELSE ReaderUint32(f, OFFSET32_BUGCHECK_PARAM1)
        p2 == IF is64 THEN ReaderUint64(f, OFFSET_BUGCHECK_PARAM2)
                      ELSE ReaderUint32(f, OFFSET32_BUGCHECK_PARAM2)
        p3 == IF is64 THEN ReaderUint64(f, OFFSET_BUGCHECK_PARAM3)
                      ELSE ReaderUint32(f, OFFSET32_BUGCHECK_PARAM3)
        p4 == IF is64 THEN ReaderUint64(f, OFFSET_BUGCHECK_PARAM4)
                      ELSE ReaderUint32(f, OFFSET32_BUGCHECK_PARAM4)
        dtype == ReaderUint32(f, OFFSET_DUMP_TYPE)
        stime == ReaderUint64(f, OFFSET_SYSTEM_TIME)
        space == ReaderUint64(f, OFFSET_REQUIRED_DUMP_SPACE)
        reads == <<major, minor, machine, nproc, code, p1, p2, p3, p4,
                   dtype, stime>>
    IN  IF ~v[1] THEN [exc |-> "ValueError"]
        ELSE IF \E k \in 1..Len(reads) : reads[k].err
             THEN [exc |-> StructError]
        ELSE [exc |-> "none",
              header |-> [signature |-> ReadAt(f, 0, 4),
                          valid_dump |-> ReadAt(f, 4, 4),
                          major_version |-> major.v,
                          minor_version |-> minor.v,
                          machine_type |-> MachineType(machine.v),
                          number_processors |-> nproc.v,
                          bugcheck_code |-> code.v,
                          bugcheck_params |-> <<p1.v, p2.v, p3.v, p4.v>>,
                          dump_type |-> DumpType(dtype.v),
                          required_dump_space |->
                              IF space.err THEN Norm(LE16(f.len)) ELSE space.v,
                          system_time |-> stime.v,
                          is_64bit |-> is64,
                          physical_memory_block_offset |->
                              IF is64 THEN 136 ELSE 100,
                          exception_record_offset |->
                              IF is64 THEN 3840 ELSE 2000]]


(***************************************************************************)
(* utils.constants (not among the sources): the canonical code form and    *)
(* the code -> name lookup, as the specification describes them.           *)
(***************************************************************************)
format_bugcheck_code(code) == <<"0", "x">> \o FormatX(code, 8)

get_bugcheck_name(code) ==
    IF code = <<26>> THEN <<"MEMORY_MANAGEMENT">>
    ELSE IF code = <<209>> THEN <<"DRIVER_IRQL_NOT_LESS_OR_EQUAL">>
    ELSE <<"UNKNOWN_BUGCHECK_">> \o format_bugcheck_code(code)

(***************************************************************************)
(* header.py: HeaderParser and parse_dump_header.                          *)
(***************************************************************************)
get_system_info(f, header) ==
    [os_version |-> <<"Windows ", header.major_version, ".",
                      header.minor_version>>,
     architecture |-> header.machine_type,
     processor_count |-> header.number_processors,
     dump_type |-> header.dump_type,
     dump_size_bytes |-> f.len,
     is_64bit |-> header.is_64bit,
     crash_time_raw |-> header.system_time]

\* a summary that prints the parameters with eight digits
HeaderParamHex_Short(value) == <<"0", "x">> \o FormatX(value, 8)

\* f"0x{value:016X}" of header.py
HeaderParamHex(value) == <<"0", "x">> \o FormatX(value, 16)

get_crash_summary(path, header) ==
    [bugcheck_code |-> format_bugcheck_code(header.bugcheck_code),
     bugcheck_code_int |-> header.bugcheck_code,
     bugcheck_name |-> get_bugcheck_name(header.bugcheck_code),
     parameter1 |-> HeaderParamHex(header.bugcheck_params[1]),
     parameter2 |-> HeaderParamHex(header.bugcheck_params[2]),
     parameter3 |-> HeaderParamHex(header.bugcheck_params[3]),
     parameter4 |-> HeaderParamHex(header.bugcheck_params[4]),
     file_path |-> path]

\* HeaderParser.parse: the exception that escapes it ("none" when it returns)
\* and the header it stored.  FileNotFoundError, ValueError and RuntimeError
\* are caught (parse returns False); an OSError of open() and the
\* struct.error of a short read are not.
HeaderParser_parse(f) ==
    IF f.status = "missing" THEN [exc |-> "none", ok |-> FALSE]
    ELSE IF f.status = "unopenable" THEN [exc |-> "OSError", ok |-> FALSE]
    ELSE LET r == parse_header(f)
         IN  IF r.exc = "ValueError" THEN [exc |-> "none", ok |-> FALSE]
             ELSE IF r.exc = StructError THEN [exc |-> StructError, ok |-> FALSE]
             ELSE [exc |-> "none", ok |-> TRUE, header |-> r.header]

\* parse_dump_header(file_path): (SystemInfo, CrashSummary) or (None, None)
parse_dump_header(path, f) ==
    LET r == HeaderParser_parse(f)
    IN  IF r.exc # "none" THEN [exc |-> r.exc, system_info |-> None,
                                crash_summary |-> None]
        ELSE IF r.ok THEN [exc |-> "none",
                           system_info |-> Some(get_system_info(f, r.header)),
                           crash_summary |->
                               Some(get_crash_summary(path, r.header))]
        ELSE [exc |-> "none", system_info |-> None, crash_summary |-> None]

(***************************************************************************)
(* bugcheck.py: BugcheckAnalyzer.                                          *)
(***************************************************************************)
\* <<code, parameter number, description>>
BUGCHECK_PARAM_DESCRIPTIONS ==
  { <<<<26>>, 1, "Memory management subtype code">>,
    <<<<26>>, 2, "Address that caused the problem">>,
    <<<<26>>, 3, "PFN of the corrupted page (if applicable)">>,
    <<<<26>>, 4, "Reserved / Additional context">>,
    <<<<30>>, 1, "Exception code (NTSTATUS)">>,
    <<<<30>>, 2, "Address where exception occurred">>,
    <<<<30>>, 3, "First exception parameter">>,
    <<<<30>>, 4, "Second exception parameter">>,
    <<<<80>>, 1, "Address referenced causing the fault">>,
    <<<<80>>, 2, "0 = read, 1 = write, 2 = execute, 8 = execute">>,
    <<<<80>>, 3, "Address that referenced the bad memory">>,
    <<<<80>>, 4, "Type of read: 0 = read, 2 = execute">>,
    <<<<126>>, 1, "Exception code (NTSTATUS)">>,
    <<<<126>>, 2, "Address where exception occurred">>,
    <<<<126>>, 3, "Exception record address">>,
    <<<<126>>, 4, "Context record address">>,
    <<<<127>>, 1, "Trap number (x86/x64 processor exception)">>,
    <<<<127>>, 2, "Reserved">>,
    <<<<127>>, 3, "Reserved">>,
    <<<<127>>, 4, "Reserved">>,
    <<<<159>>, 1, "Subtype of power failure">>,
    <<<<159>>, 2, "Address of the device object">>,
    <<<<159>>, 3, "Address of the driver object">>,
    <<<<159>>, 4, "Reserved (depends on subtype)">>,
    <<<<160>>, 1, "Subtype of internal power error">>,
    <<<<160>>, 2, "Additional info (subtype-dependent)">>,
    <<<<160>>, 3, "Additional info (subtype-dependent)">>,
    <<<<160>>, 4, "Additional info (subtype-dependent)">>,
    <<<<209>>, 1, "Memory address referenced">>,
    <<<<209>>, 2, "IRQL at time of reference">>,
    <<<<209>>, 3, "0 = read, 1 = write">>,
    <<<<209>>, 4, "Address of instruction that referenced memory">>,
    <<<<239>>, 1, "Process object address">>,
    <<<<239>>, 2, "If 0 = process terminated, if 1 = thread terminated">>,
    <<<<239>>, 3, "Reserved">>,
    <<<<239>>, 4, "Reserved">>,
    <<<<22, 1>>, 1, "Pointer to internal TDR recovery context">>,
    <<<<22, 1>>, 2, "Pointer to responsible device driver module">>,
    <<<<22, 1>>, 3, "Error code of last failed operation">>,
    <<<<22, 1>>, 4, "Internal context dependent data">>,
    <<<<57, 1>>, 1, "Security cookie failure type">>,
    <<<<57, 1>>, 2, "Address of trap frame / exception record">>,
    <<<<57, 1>>, 3, "Address of context record">>,
    <<<<57, 1>>, 4, "Reserved">>,
    <<<<202, 1>>, 1, "Timeout count">>,
    <<<<202, 1>>, 2, "Process object (if applicable)">>,
    <<<<202, 1>>, 3, "Thread object (if applicable)">>,
    <<<<202, 1>>, 4, "Additional context">>,
    <<<<84, 1>>, 1, "Exception record address">>,
    <<<<84, 1>>, 2, "Context record address">>,
    <<<<84, 1>>, 3, "Exception code">>,
    <<<<84, 1>>, 4, "Reserved">>,
    <<<<194>>, 1, "Type of pool corruption">>,
    <<<<194>>, 2, "Depends on parameter 1">>,
    <<<<194>>, 3, "Depends on parameter 1">>,
    <<<<194>>, 4, "Depends on parameter 1">>,
    <<<<196>>, 1, "Subtype of driver verifier violation">>,
    <<<<196>>, 2, "Address of driver with the violation">>,
    <<<<196>>, 3, "Violation-specific parameter">>,
    <<<<196>>, 4, "Violation-specific parameter">>,
    <<<<252>>, 1, "Address being executed">>,
    <<<<252>>, 2, "PTE contents">>,
    <<<<252>>, 3, "Reserved">>,
    <<<<252>>, 4, "Reserved">> }

\* <<param1, text>>
MEMORY_MANAGEMENT_SUBTYPES ==
  { <<<<132, 18, 4>>, "A page that should have been filled with zeros was not.">>,
    <<<<133, 18, 4>>, "A PTE has been corrupted.">>,
    <<<<134, 18, 4>>, "A page table page has been corrupted.">>,
    <<<<135, 18, 4>>, "A PFN list head has been corrupted.">>,
    <<<<144, 23, 4>>, "The page frame number list is corrupt.">>,
    <<<<146, 23, 4>>, "A PTE or the PFN is corrupted.">>,
    <<<<147, 23, 4>>, "A page table has been corrupted.">>,
    <<<<148, 23, 4>>, "An illegal PFN was used.">>,
    <<<<64, 25, 6>>, "An allocation that should have been pageable was not.">>,
    <<<<65, 25, 6>>, "A free happened on bad pool.">>,
    <<<<70, 25, 6>>, "A corrupted page table was detected.">> }

\* <<trap number, text>>
TRAP_NUMBERS ==
  { <<<<>>, "Divide Error">>,
    <<<<1>>, "Debug Exception">>,
    <<<<2>>, "NMI Interrupt">>,
    <<<<3>>, "Breakpoint">>,
    <<<<4>>, "Overflow">>,
    <<<<5>>, "Bound Range Exceeded">>,
    <<<<6>>, "Invalid Opcode">>,
    <<<<7>>, "Device Not Available (No Math Coprocessor)">>,
    <<<<8>>, "Double Fault">>,
    <<<<9>>, "Coprocessor Segment Overrun">>,
    <<<<10>>, "Invalid TSS">>,
    <<<<11>>, "Segment Not Present">>,
    <<<<12>>, "Stack Segment Fault">>,
    <<<<13>>, "General Protection Fault">>,
    <<<<14>>, "Page Fault">>,
    <<<<16>>, "x87 Floating-Point Error">>,
    <<<<17>>, "Alignment Check">>,
    <<<<18>>, "Machine Check">>,
    <<<<19>>, "SIMD Floating-Point Exception">> }

\* the categories in the order of the dict: <<category, codes>>
BUGCHECK_CATEGORIES ==
  << <<"Memory Corruption", {<<26>>, <<80>>, <<122>>, <<194>>, <<197>>, <<252>>}>>,
     <<"Driver Issues", {<<209>>, <<211>>, <<216>>, <<196>>, <<159>>, <<22, 1>>}>>,
     <<"Hardware Failure", {<<127>>, <<36, 1>>, <<156>>}>>,
     <<"Process/Thread", {<<239>>, <<57, 1>>, <<244>>}>>,
     <<"File System", {<<36>>, <<119>>}>>,
     <<"Power Management", {<<159>>, <<160>>}>>,
     <<"Security", {<<57, 1>>}>>,
     <<"Graphics/Display", {<<22, 1>>, <<25, 1>>}>>,
     <<"General Exception", {<<30>>, <<126>>, <<142>>}>> >>

SEVERITY_CRITICAL == {<<239>>, <<57, 1>>, <<127>>, <<36, 1>>, <<80>>}
SEVERITY_HIGH == {<<209>>, <<26>>, <<126>>, <<30>>, <<196>>}

\* <<code, causes>> of get_likely_causes
LIKELY_CAUSES ==
  { <<<<26>>,
      <<"Faulty RAM or memory hardware",
        "Corrupted memory due to driver bug",
        "Overclocked memory causing instability",
        "Damaged system files">>>>,
    <<<<30>>,
      <<"Incompatible or buggy driver",
        "Faulty hardware",
        "Software conflict">>>>,
    <<<<80>>,
      <<"Faulty driver accessing invalid memory",
        "Defective RAM",
        "Antivirus software conflict",
        "Corrupted system files">>>>,
    <<<<126>>,
      <<"System thread generated an unhandled exception",
        "Driver compatibility issue",
        "Corrupted system files">>>>,
    <<<<127>>,
      <<"Hardware failure (memory, CPU)",
        "Kernel stack overflow",
        "Driver bug">>>>,
    <<<<159>>,
      <<"Driver failed to complete a power IRP",
        "Incompatible power management driver",
        "Hardware device not responding">>>>,
    <<<<209>>,
      <<"Driver accessing pageable memory at high IRQL",
        "Driver bug (most common)",
        "Faulty driver installation">>>>,
    <<<<239>>,
      <<"Critical system process terminated unexpectedly",
        "Corrupted system files",
        "Failed system update",
        "Hardware failure">>>>,
    <<<<22, 1>>,
      <<"Graphics driver failed to respond",
        "Overheating GPU",
        "Outdated graphics drivers",
        "Faulty graphics card">>>>,
    <<<<57, 1>>,
      <<"Buffer overflow detected in kernel",
        "Stack corruption",
        "Malware or security compromise">>>> }

DEFAULT_CAUSES ==
    <<"Driver compatibility issue", "Hardware malfunction", "Corrupted system files">>

\* <<code, recommendations>> of get_recommendations
RECOMMENDATIONS ==
  { <<<<26>>,
      <<"Run Windows Memory Diagnostic (mdsched.exe)",
        "Check for driver updates",
        "Run System File Checker (sfc /scannow)",
        "Check for overclocking and reset to defaults">>>>,
    <<<<80>>,
      <<"Run Windows Memory Diagnostic",
        "Update all drivers especially graphics and storage",
        "Temporarily disable antivirus to test",
        "Run chkdsk to check disk health">>>>,
    <<<<209>>,
      <<"Update the driver mentioned in the crash",
        "Use Driver Verifier to identify problematic driver",
        "Roll back recent driver updates">>>>,
    <<<<239>>,
      <<"Run System File Checker (sfc /scannow)",
        "Run DISM /Online /Cleanup-Image /RestoreHealth",
        "Check disk health with chkdsk",
        "Consider system restore to earlier point">>>>,
    <<<<22, 1>>,
      <<"Update graphics drivers",
        "Check GPU temperature and cooling",
        "Reduce graphics settings in games/apps",
        "Clean GPU and improve ventilation">>>>,
    <<<<57, 1>>,
      <<"Scan for malware with Windows Defender",
        "Run System File Checker",
        "Update Windows to latest version">>>> }

DEFAULT_RECOMMENDATIONS ==
    <<"Update all drivers to latest versions", "Run System File Checker (sfc /scannow)", "Check Windows Event Viewer for more details", "Run Windows Memory Diagnostic">>

\* <<code, description>> of BugcheckAnalyzer._get_description
DESCRIPTIONS ==
  { <<<<26>>, "The memory manager has detected a memory corruption issue.">>,
    <<<<30>>, "A kernel-mode program generated an exception that wasn't caught.">>,
    <<<<80>>, "The system tried to access invalid memory (page fault).">>,
    <<<<126>>, "A system thread generated an exception that wasn't handled.">>,
    <<<<127>>, "The CPU generated an unexpected trap (processor exception).">>,
    <<<<159>>, "A driver is in an inconsistent or invalid power state.">>,
    <<<<160>>, "The power policy manager experienced a fatal error.">>,
    <<<<209>>, "A driver accessed paged memory at an improper IRQL level.">>,
    <<<<239>>, "A critical system process died unexpectedly.">>,
    <<<<22, 1>>, "The display driver failed to respond in the allowed time.">>,
    <<<<57, 1>>, "The kernel detected security violations (buffer overflow/stack corruption).">>,
    <<<<84, 1>>, "An unexpected store exception occurred.">>,
    <<<<194>>, "A caller with pool responsibility passed bad parameters.">>,
    <<<<196>>, "Driver Verifier detected a driver violation.">>,
    <<<<252>>, "Attempt to execute non-executable memory.">> }

\* <<param2, text>> for code 0x50
PAGE_FAULT_OPS ==
  { <<<<>>, "Read operation">>,
    <<<<1>>, "Write operation">>,
    <<<<2>>, "Execute operation">>,
    <<<<8>>, "Execute operation">> }

\* <<param3, text>> for code 0xD1
DRIVER_IRQL_OPS ==
  { <<<<>>, "Read operation">>,
    <<<<1>>, "Write operation">> }

\* dict.get(key): the value of the entry <<key, value>> of a table, or None
DictGet(table, key) ==
    IF \E e \in table : e[1] = key
    THEN Some((CHOOSE e \in table : e[1] = key)[2])
    ELSE None

\* get_category: the first category, in dict order, that lists the code
get_category(code) ==
    LET hits == {k \in 1..Len(BUGCHECK_CATEGORIES) :
                     code \in BUGCHECK_CATEGORIES[k][2]}
    IN  IF hits = {} THEN "Other"
        ELSE BUGCHECK_CATEGORIES[CHOOSE k \in hits : \A j \in hits : k <= j][1]

get_severity(code) ==
    IF code \in SEVERITY_CRITICAL THEN "Critical"
    ELSE IF code \in SEVERITY_HIGH THEN "High"
    ELSE "Medium"

get_likely_causes(code) ==
    IF IsSome(DictGet(LIKELY_CAUSES, code))
    THEN Get(DictGet(LIKELY_CAUSES, code)) ELSE DEFAULT_CAUSES

get_recommendations(code) ==
    IF IsSome(DictGet(RECOMMENDATIONS, code))
    THEN Get(DictGet(RECOMMENDATIONS, code)) ELSE DEFAULT_RECOMMENDATIONS

\* an interpreter that knows no sub-type table
interpret_parameter_None(code, param_num, value) == None

\* interpret_parameter(bugcheck_code, param_num, value)
interpret_parameter(code, param_num, value) ==
    IF code = <<26>> /\ param_num = 1
    THEN DictGet(MEMORY_MANAGEMENT_SUBTYPES, value)
    ELSE IF code = <<127>> /\ param_num = 1 THEN DictGet(TRAP_NUMBERS, value)
    ELSE IF code = <<80>> /\ param_num = 2 THEN DictGet(PAGE_FAULT_OPS, value)
    ELSE IF code = <<209>> /\ param_num = 3 THEN DictGet(DRIVER_IRQL_OPS, value)
    ELSE None

\* BugcheckAnalyzer._get_description
get_description(code) ==
    IF IsSome(DictGet(DESCRIPTIONS, code))
    THEN <<Get(DictGet(DESCRIPTIONS, code))>>
    ELSE <<"System stop error occurred with code ">>
         \o format_bugcheck_code(code)

\* desc = param_descs.get(i, f"Bugcheck parameter {i}")
ParamDescription(code, i) ==
    IF \E e \in BUGCHECK_PARAM_DESCRIPTIONS : e[1] = code /\ e[2] = i
    THEN <<(CHOOSE e \in BUGCHECK_PARAM_DESCRIPTIONS :
                e[1] = code /\ e[2] = i)[3]>>
    ELSE <<"Bugcheck parameter ", HexDigits[i + 1]>>

\* a rendering that keeps only the low 32 bits of the value
ParamHexValue_Low32(value) ==
    <<"0", "x">> \o FormatX(Norm(SubSeq(value, 1, Min(4, Len(value)))), 16)

\* hex_value = f"0x{value:016X}" of BugcheckAnalyzer._analyze_parameters
ParamHexValue(value) == <<"0", "x">> \o FormatX(value, 16)

\* an analysis that echoes only the parameters that are not zero
analyze_parameters_NonZero(code, params) ==
    SelectSeq([i \in 1..4 |-> [parameter_number |-> i,
                               raw_value |-> params[i],
                               hex_value |-> ParamHexValue(params[i]),
                               description |-> ParamDescription(code, i),
                               interpretation |->
                                   interpret_parameter(code, i, params[i])]],
              LAMBDA p : p.raw_value # Zero)

\* BugcheckAnalyzer._analyze_parameters: one ParameterAnalysis per parameter
analyze_parameters(code, params) ==
    [i \in 1..4 |-> [parameter_number |-> i,
                     raw_value |-> params[i],
                     hex_value |-> ParamHexValue(params[i]),
                     description |-> ParamDescription(code, i),
                     interpretation |->
                         interpret_parameter(code, i, params[i])]]

\* BugcheckAnalyzer.analyze
analyze_bugcheck(code, params) ==
    [code |-> code,
     code_hex |-> format_bugcheck_code(code),
     name |-> get_bugcheck_name(code),
     category |-> get_category(code),
     description |-> get_description(code),
     parameters |-> analyze_parameters(code, params),
     recommendations |-> get_recommendations(code),
     likely_causes |-> get_likely_causes(code),
     severity |-> get_severity(code)]

(***************************************************************************)
(* stack_trace.py: StackTraceParser.                                       *)
(***************************************************************************)
EXCEPTION_RECORD_OFFSET_IN_HEADER == 840
CONTEXT_RECORD_OFFSET_IN_HEADER == 1032
CONTEXT_FLAGS_OFFSET == 48
EXCEPTION_CODE_OFFSET == 0
EXCEPTION_FLAGS_OFFSET == 4
EXCEPTION_ADDRESS_OFFSET == 16
EXCEPTION_NUM_PARAMS_OFFSET == 24
EXCEPTION_PARAMS_OFFSET == 32
MAX_EXCEPTION_PARAMS == 15

\* register name -> offset within the x64 CONTEXT
ContextOffsets ==
    [rax |-> 120, rcx |-> 128, rdx |-> 136, rbx |-> 144, rsp |-> 152,
     rbp |-> 160, rsi |-> 168, rdi |-> 176, r8 |-> 184, r9 |-> 192,
     r10 |-> 200, r11 |-> 208, r12 |-> 216, r13 |-> 224, r14 |-> 232,
     r15 |-> 240, rip |-> 248]

\* StackTraceParser._read_uint32 / _read_uint64: 0 when the slice is short
StackUint32(f, offset) ==
    LET data == ReadAt(f, offset, 4) IN IF Len(data) < 4 THEN Zero ELSE Norm(data)
StackUint64(f, offset) ==
    LET data == ReadAt(f, offset, 8) IN IF Len(data) < 8 THEN Zero ELSE Norm(data)

\* StackTraceParser.parse_registers: a RegisterState whatever the flags are
parse_registers(f) ==
    [context_flags |->
         StackUint32(f, CONTEXT_RECORD_OFFSET_IN_HEADER + CONTEXT_FLAGS_OFFSET),
     regs |-> [r \in DOMAIN ContextOffsets |->
                  StackUint64(f, CONTEXT_RECORD_OFFSET_IN_HEADER
                                 + ContextOffsets[r])]]

\* the parameters list of parse_exception: read only when 0 < n <= 15
ExceptionParams(f, num_params) ==
    IF FitsNat(num_params) /\ NatOf(num_params) > 0
       /\ NatOf(num_params) <= MAX_EXCEPTION_PARAMS
    THEN [i \in 1..NatOf(num_params) |->
             StackUint64(f, EXCEPTION_RECORD_OFFSET_IN_HEADER
                            + EXCEPTION_PARAMS_OFFSET + (i - 1) * 8)]
    ELSE <<>>

\* StackTraceParser.parse_exception
parse_exception(f) ==
    LET exc_base == EXCEPTION_RECORD_OFFSET_IN_HEADER
        num_params == StackUint32(f, exc_base + EXCEPTION_NUM_PARAMS_OFFSET)
    IN  [exception_code |-> StackUint32(f, exc_base + EXCEPTION_CODE_OFFSET),
         exception_flags |-> StackUint32(f, exc_base + EXCEPTION_FLAGS_OFFSET),
         exception_address |->
             StackUint64(f, exc_base + EXCEPTION_ADDRESS_OFFSET),
         num_parameters |-> num_params,
         parameters |-> ExceptionParams(f, num_params)]

\* stack_ptr / instr_ptr of parse_stack_trace: "registers.rsp if registers
\* else 0", and parse_registers returned a RegisterState
StackPointers(registers) == <<registers.regs.rsp, registers.regs.rip>>

\* the note of parse_stack_trace
StackNote(has_context, has_exception) ==
    LET n1 == IF ~has_context
              THEN <<"Context record not found or invalid. ">> ELSE <<>>
    IN  IF ~has_exception
        THEN n1 \o <<"No exception record. This may be a live dump or the exception was not captured.">>
        ELSE <<"Full stack trace requires debug symbols (PDBs). Raw register state captured.">>

\* StackTraceParser.parse_stack_trace on an opened file
parse_stack_trace(f) ==
    LET registers == parse_registers(f)
        exception == parse_exception(f)
        has_context == registers.context_flags # Zero
        has_exception == exception.exception_code # Zero
        ptrs == StackPointers(registers)
    IN  [registers |-> IF has_context THEN Some(registers) ELSE None,
         exception |-> IF has_exception THEN Some(exception) ELSE None,
         raw_frames |-> <<>>,
         stack_pointer |-> ptrs[1],
         instruction_pointer |-> ptrs[2],
         has_context |-> has_context,
         has_exception |-> has_exception,
         note |-> StackNote(has_context, has_exception)]


(***************************************************************************)
(* drivers.py: DriverListExtractor.                                        *)
(***************************************************************************)
SCAN_WINDOW == 8192
SCAN_MARGIN == 100
MIN_NAME_LEN == 3

\* <<name bytes, reason>>
KNOWN_PROBLEMATIC_DRIVERS ==
  { <<<<97, 115, 119, 115, 112, 46, 115, 121, 115>>,  \* aswsp.sys
      "Avast Software - may cause memory issues">>,
    <<<<97, 115, 119, 115, 110, 120, 46, 115, 121, 115>>,  \* aswsnx.sys
      "Avast Software - file system filter">>,
    <<<<97, 118, 103, 115, 112, 46, 115, 121, 115>>,  \* avgsp.sys
      "AVG Antivirus - may cause conflicts">>,
    <<<<98, 100, 118, 101, 100, 105, 115, 107, 46, 115, 121, 115>>,  \* bdvedisk.sys
      "Bitdefender - virtual disk driver">>,
    <<<<107, 108, 105, 102, 46, 115, 121, 115>>,  \* klif.sys
      "Kaspersky Lab - file system filter">>,
    <<<<116, 109, 117, 115, 97, 46, 115, 121, 115>>,  \* tmusa.sys
      "Trend Micro - may cause performance issues">>,
    <<<<116, 109, 99, 111, 109, 109, 46, 115, 121, 115>>,  \* tmcomm.sys
      "Trend Micro - communication driver">>,
    <<<<110, 118, 108, 100, 100, 109, 107, 109, 46, 115, 121, 115>>,  \* nvlddmkm.sys
      "NVIDIA Display Driver - common crash source">>,
    <<<<97, 116, 105, 107, 109, 112, 97, 103, 46, 115, 121, 115>>,  \* atikmpag.sys
      "AMD Display Driver - may cause TDR failures">>,
    <<<<105, 103, 100, 107, 109, 100, 54, 52, 46, 115, 121, 115>>,  \* igdkmd64.sys
      "Intel Graphics - may conflict with dedicated GPU">>,
    <<<<97, 109, 100, 107, 109, 100, 97, 103, 46, 115, 121, 115>>,  \* amdkmdag.sys
      "AMD Graphics - kernel mode driver">>,
    <<<<101, 49, 99, 54, 50, 120, 54, 52, 46, 115, 121, 115>>,  \* e1c62x64.sys
      "Intel Ethernet - may cause network issues">>,
    <<<<114, 116, 54, 52, 48, 120, 54, 52, 46, 115, 121, 115>>,  \* rt640x64.sys
      "Realtek Ethernet - may cause BSODs">>,
    <<<<110, 119, 105, 102, 105, 46, 115, 121, 115>>,  \* nwifi.sys
      "Windows WiFi driver - rarely causes issues">>,
    <<<<105, 97, 83, 116, 111, 114, 86, 46, 115, 121, 115>>,  \* iaStorV.sys
      "Intel Rapid Storage - may cause disk issues">>,
    <<<<115, 116, 111, 114, 97, 104, 99, 105, 46, 115, 121, 115>>,  \* storahci.sys
      "Standard AHCI driver - check for updates">>,
    <<<<110, 118, 109, 101, 46, 115, 121, 115>>,  \* nvme.sys
      "NVMe controller driver">>,
    <<<<109, 114, 118, 108, 100, 101, 118, 48, 46, 115, 121, 115>>,  \* mrvldev0.sys
      "Marvell storage - known for issues">>,
    <<<<99, 112, 117, 122, 46, 115, 121, 115>>,  \* cpuz.sys
      "CPU-Z driver - can cause issues">>,
    <<<<114, 116, 99, 111, 114, 101, 54, 52, 46, 115, 121, 115>>,  \* rtcore64.sys
      "MSI Afterburner - known vulnerability">>,
    <<<<97, 115, 109, 116, 120, 104, 99, 105, 46, 115, 121, 115>>,  \* asmtxhci.sys
      "ASMedia USB 3.0 - may cause USB issues">>,
    <<<<97, 115, 117, 115, 116, 112, 46, 115, 121, 115>>,  \* asustp.sys
      "ASUS driver - check for updates">>,
    <<<<101, 110, 101, 46, 115, 121, 115>>,  \* ene.sys
      "MSI/RGB software - known issues">>,
    <<<<119, 105, 110, 116, 97, 112, 46, 115, 121, 115>>,  \* wintap.sys
      "VPN/Firewall software">>,
    <<<<118, 98, 111, 120, 100, 114, 118, 46, 115, 121, 115>>,  \* vboxdrv.sys
      "VirtualBox - may conflict with Hyper-V">>,
    <<<<118, 109, 99, 105, 46, 115, 121, 115>>,  \* vmci.sys
      "VMware - virtualization driver">>,
    <<<<118, 109, 120, 56, 54, 46, 115, 121, 115>>,  \* vmx86.sys
      "VMware Workstation driver">>,
    <<<<110, 97, 104, 105, 109, 105, 99, 115, 101, 114, 118, 105, 99, 101, 46, 115, 121, 115>>,  \* nahimicservice.sys
      "Nahimic audio - known for conflicts">>,
    <<<<97, 50, 100, 112, 115, 114, 118, 46, 115, 121, 115>>,  \* a2dpsrv.sys
      "A-Volute - Sonic Studio, causes issues">> }

KNOWN_SAFE_DRIVERS ==
  { <<110, 116, 111, 115, 107, 114, 110, 108, 46, 101, 120, 101>>,  \* ntoskrnl.exe
    <<104, 97, 108, 46, 100, 108, 108>>,  \* hal.dll
    <<99, 105, 46, 100, 108, 108>>,  \* ci.dll
    <<99, 108, 102, 115, 46, 115, 121, 115>>,  \* clfs.sys
    <<116, 109, 46, 115, 121, 115>>,  \* tm.sys
    <<110, 116, 102, 115, 46, 115, 121, 115>>,  \* ntfs.sys
    <<102, 108, 116, 109, 103, 114, 46, 115, 121, 115>>,  \* fltmgr.sys
    <<119, 100, 102, 48, 49, 48, 48, 48, 46, 115, 121, 115>>,  \* wdf01000.sys
    <<107, 115, 101, 99, 100, 100, 46, 115, 121, 115>>,  \* ksecdd.sys
    <<110, 100, 105, 115, 46, 115, 121, 115>>,  \* ndis.sys
    <<116, 99, 112, 105, 112, 46, 115, 121, 115>>,  \* tcpip.sys
    <<110, 101, 116, 105, 111, 46, 115, 121, 115>>,  \* netio.sys
    <<102, 119, 112, 107, 99, 108, 110, 116, 46, 115, 121, 115>>,  \* fwpkclnt.sys
    <<115, 116, 111, 114, 112, 111, 114, 116, 46, 115, 121, 115>>,  \* storport.sys
    <<115, 112, 97, 99, 101, 112, 111, 114, 116, 46, 115, 121, 115>>,  \* spaceport.sys
    <<118, 111, 108, 109, 103, 114, 46, 115, 121, 115>>,  \* volmgr.sys
    <<118, 111, 108, 109, 103, 114, 120, 46, 115, 121, 115>>,  \* volmgrx.sys
    <<109, 111, 117, 110, 116, 109, 103, 114, 46, 115, 121, 115>>,  \* mountmgr.sys
    <<112, 97, 114, 116, 109, 103, 114, 46, 115, 121, 115>>,  \* partmgr.sys
    <<100, 105, 115, 107, 46, 115, 121, 115>>,  \* disk.sys
    <<99, 108, 97, 115, 115, 112, 110, 112, 46, 115, 121, 115>>,  \* classpnp.sys
    <<97, 99, 112, 105, 46, 115, 121, 115>>,  \* acpi.sys
    <<119, 109, 105, 108, 105, 98, 46, 115, 121, 115>>,  \* wmilib.sys
    <<109, 115, 114, 112, 99, 46, 115, 121, 115>>,  \* msrpc.sys
    <<99, 110, 103, 46, 115, 121, 115>>,  \* cng.sys
    <<107, 115, 101, 99, 112, 107, 103, 46, 115, 121, 115>> }  \* ksecpkg.sys

\* a lookup that reports a reason for no driver
ProblematicReason_Dropped(name_lower) == None

\* KNOWN_PROBLEMATIC_DRIVERS.get(name_lower)
ProblematicReason(name_lower) ==
    IF \E e \in KNOWN_PROBLEMATIC_DRIVERS : e[1] = name_lower
    THEN Some((CHOOSE e \in KNOWN_PROBLEMATIC_DRIVERS : e[1] = name_lower)[2])
    ELSE None

\* str.lower() on ASCII bytes
Lower(name) ==
    [k \in 1..Len(name) |->
        IF name[k] >= 65 /\ name[k] <= 90 THEN name[k] + 32 ELSE name[k]]

\* DriverListExtractor._classify_driver(name) with the default path ""
classify_driver(name) ==
    LET name_lower == Lower(name)
    IN  [is_microsoft |-> name_lower \in KNOWN_SAFE_DRIVERS,
         is_problematic |->
             \E e \in KNOWN_PROBLEMATIC_DRIVERS : e[1] = name_lower,
         problematic_reason |-> ProblematicReason(name_lower)]

\* a test that lets DEL and the high bytes through
Printable_NoUpperLimit(b) == b >= 32

\* 0x20 <= header_data[start] < 0x7F
Printable(b) == b >= 32 /\ b < 127

\* the backward walk "while start > 0 and printable(header_data[start])"
RECURSIVE WalkBack(_, _)
WalkBack(f, start) ==
    IF start > 0 /\ Printable(Byte(f, start)) THEN WalkBack(f, start - 1)
    ELSE start

\* the offsets i < len(header_data) - 100 with header_data[i:i+4] = b'.sys'
SysHits(f) ==
    LET n == Min(SCAN_WINDOW, f.len)
    IN  {i \in 0..(n - SCAN_MARGIN - 1) :
            /\ Byte(f, i) = 46
            /\ Byte(f, i + 1) = 115
            /\ Byte(f, i + 2) = 121
            /\ Byte(f, i + 3) = 115}

DriverInfo(name) ==
    LET c == classify_driver(name)
    IN  [name |-> name, base_address |-> Zero, size |-> 0,
         is_microsoft |-> c.is_microsoft,
         is_problematic |-> c.is_problematic,
         problematic_reason |-> c.problematic_reason]

\* the loop body of _extract_drivers_from_strings over the hits in
\* ascending order; seen is seen_names, acc the drivers list
RECURSIVE ScanHits(_, _, _, _)
ScanHits(f, hits, seen, acc) ==
    IF hits = {} THEN acc
    ELSE LET i == CHOOSE x \in hits : \A y \in hits : x <= y
             start == WalkBack(f, i - 1) + 1
             name == [k \in 1..(i + 4 - start) |-> Byte(f, start + k - 1)]
             take == /\ i - start >= MIN_NAME_LEN
                     /\ name \notin seen
                     /\ name[1] # 46
         IN  IF take
             THEN ScanHits(f, hits \ {i}, seen \cup {name},
                           Append(acc, DriverInfo(name)))
             ELSE ScanHits(f, hits \ {i}, seen, acc)

extract_drivers_from_strings(f) == ScanHits(f, SysHits(f), {}, <<>>)

Count(seq, P(_)) == Cardinality({k \in 1..Len(seq) : P(seq[k])})
Filter(seq, P(_)) == SelectSeq(seq, P)

\* DriverListExtractor.extract_drivers on an opened file
extract_drivers(f) ==
    LET ds == extract_drivers_from_strings(f)
        IsMs(d) == d.is_microsoft
        NotMs(d) == ~d.is_microsoft
        IsProb(d) == d.is_problematic
    IN  IF ds = <<>>
        THEN [drivers |-> <<>>, total_count |-> 0, microsoft_count |-> 0,
              third_party_count |-> 0, problematic_count |-> 0,
              problematic_drivers |-> <<>>,
              extraction_method |-> "string_scan",
              note |-> <<"No drivers found in header. Full driver list requires loading module database from dump which needs virtual address translation. For complete driver info, use 'lm' command in WinDbg.">>]
        ELSE [drivers |-> ds, total_count |-> Len(ds),
              microsoft_count |-> Count(ds, IsMs),
              third_party_count |-> Len(Filter(ds, NotMs)),
              problematic_count |-> Len(Filter(ds, IsProb)),
              problematic_drivers |-> Filter(ds, IsProb),
              extraction_method |-> "string_scan",
              note |-> <<"Found ", Len(ds), " driver references. For complete driver listing with addresses and versions, analyze with WinDbg.">>]


(***************************************************************************)
(* The inputs: paths and dump files.                                       *)
(***************************************************************************)
\* the largest run of printable padding written before a module name
MaxPad == 2
\* the largest small raw parameter-count word written into a file
MaxCount == 17

\* a path is a tuple of tokens, "/" being the separator
Paths == { <<"C:", "/", "dumps", "/", "MEMORY.DMP">>, <<"crash.dmp">>,
           <<"C:", "/", "dumps", "/">>, <<>> }

\* what the file system can hold at a path: nothing at the empty path, and
\* at a path that ends in a separator nothing or a directory (open fails)
PathAdmits(path, f) ==
    /\ path = <<>> => f.status = "missing"
    /\ (path # <<>> /\ path[Len(path)] = "/") =>
           f.status \in {"missing", "unopenable"}

\* os.path.basename: the tokens after the last separator
RECURSIVE basename(_)
basename(path) ==
    IF Len(path) = 0 THEN <<>>
    ELSE IF path[Len(path)] = "/" THEN <<>>
    ELSE basename(SubSeq(path, 1, Len(path) - 1)) \o <<path[Len(path)]>>

NVLDDMKM == <<110, 118, 108, 100, 100, 109, 107, 109, 46, 115, 121, 115>>
NVLDDMKM_UPPER == <<78, 86, 76, 68, 68, 77, 75, 77, 46, 115, 121, 115>>
NTFS_SYS == <<110, 116, 102, 115, 46, 115, 121, 115>>
AB_SYS == <<97, 98, 46, 115, 121, 115>>
DOT_ABC_SYS == <<46, 97, 98, 99, 46, 115, 121, 115>>
NOTADUMP == <<110, 111, 116, 97, 100, 117, 109, 112>>

Signatures == {DUMP_SIGNATURE_64, DUMP_SIGNATURE_32, NOTADUMP}

\* the fixed-offset header fields other than the bug check
CommonPart ==
    Put(OFFSET_MAJOR_VERSION, U32(10)) @@ Put(OFFSET_MINOR_VERSION, U32(0))
    @@ Put(OFFSET32_BUGCHECK_PARAM1, <<144, 23, 4, 0>>)
    @@ Put(OFFSET_MACHINE_IMAGE_TYPE, <<100, 134, 0, 0>>)
    @@ Put(OFFSET_NUMBER_PROCESSORS, U32(8))
    @@ Put(OFFSET_DUMP_TYPE, U32(2))
    @@ Put(OFFSET_SYSTEM_TIME, <<1, 2, 3, 4, 5, 6, 218, 1>>)

BugPart(code, p) ==
    Put(OFFSET_BUGCHECK_CODE, code)
    @@ Put(OFFSET_BUGCHECK_PARAM1, p[1]) @@ Put(OFFSET_BUGCHECK_PARAM2, p[2])
    @@ Put(OFFSET_BUGCHECK_PARAM3, p[3]) @@ Put(OFFSET_BUGCHECK_PARAM4, p[4])

Z8 == <<0, 0, 0, 0, 0, 0, 0, 0>>
FF8 == <<255, 255, 255, 255, 255, 255, 255, 255>>

\* bug checks: MEMORY_MANAGEMENT 0x1A with subtype 0x41790,
\* DRIVER_IRQL_NOT_LESS_OR_EQUAL 0xD1 with a write, 0xDEADBEEF
BugParts ==
    { BugPart(<<26, 0, 0, 0>>, <<<<144, 23, 4, 0, 0, 0, 0, 0>>, Z8, Z8, Z8>>),
      BugPart(<<209, 0, 0, 0>>,
              <<<<0, 16, 0, 0, 128, 248, 255, 255>>, U64(2), U64(1), FF8>>),
      BugPart(<<239, 190, 173, 222>>, <<Z8, Z8, Z8, Z8>>) }

CtxPart(flags, rsp, rip) ==
    Put(CONTEXT_RECORD_OFFSET_IN_HEADER + CONTEXT_FLAGS_OFFSET, flags)
    @@ Put(CONTEXT_RECORD_OFFSET_IN_HEADER + ContextOffsets.rsp, rsp)
    @@ Put(CONTEXT_RECORD_OFFSET_IN_HEADER + ContextOffsets.rip, rip)

SomeRsp == <<0, 240, 255, 255, 1, 248, 255, 255>>
SomeRip == <<16, 32, 48, 64, 2, 248, 255, 255>>

CtxParts ==
    { CtxPart(U32(0), Z8, Z8),
      CtxPart(U32(0), SomeRsp, SomeRip),
      CtxPart(<<15, 0, 16, 0>>, SomeRsp, SomeRip) }

ExcPart(code, count) ==
    Put(EXCEPTION_RECORD_OFFSET_IN_HEADER + EXCEPTION_CODE_OFFSET, code)
    @@ Put(EXCEPTION_RECORD_OFFSET_IN_HEADER + EXCEPTION_ADDRESS_OFFSET, SomeRip)
    @@ Put(EXCEPTION_RECORD_OFFSET_IN_HEADER + EXCEPTION_NUM_PARAMS_OFFSET, count)
    @@ Put(EXCEPTION_RECORD_OFFSET_IN_HEADER + EXCEPTION_PARAMS_OFFSET, U64(1))
    @@ Put(EXCEPTION_RECORD_OFFSET_IN_HEADER + EXCEPTION_PARAMS_OFFSET + 8,
           SomeRsp)

AccessViolation == <<5, 0, 0, 192>>

ExcParts ==
    { ExcPart(c, U32(n)) : c \in {U32(0), AccessViolation}, n \in 0..MaxCount }
    \cup { ExcPart(AccessViolation, <<255, 255, 255, 255>>) }

TextOffset == 512

\* module names written into the scanned window
TextParts ==
    { NoData }
    \cup { Put(TextOffset, Repeat(32, pad) \o NVLDDMKM) : pad \in 0..MaxPad }
    \cup { Put(TextOffset, NVLDDMKM_UPPER),
           Put(TextOffset, NTFS_SYS) @@ Put(600, NVLDDMKM) @@ Put(700, NVLDDMKM),
           Put(TextOffset, AB_SYS),
           Put(TextOffset, DOT_ABC_SYS),
           Put(TextOffset, NVLDDMKM) @@ Put(600, NVLDDMKM_UPPER),
           Put(TextOffset, <<127>> \o NVLDDMKM) @@ Put(600, <<200>> \o NTFS_SYS),
           Put(0, NVLDDMKM),
           Put(SCAN_WINDOW - SCAN_MARGIN, NVLDDMKM) }

\* file lengths around the offsets the decoders read
Lengths == {0, 4, 8, 60, 600, 1400, 4000, 4008, 4200, 8192, 9000}

\* a file of len bytes: the bytes of data below len
File(len, data) ==
    [status |-> "ok", len |-> len,
     data |-> [i \in {j \in DOMAIN data : j < len} |-> data[i]]]

BasePart == Put(0, DUMP_SIGNATURE_64) @@ CommonPart
            @@ BugPart(<<26, 0, 0, 0>>,
                       <<<<144, 23, 4, 0, 0, 0, 0, 0>>, Z8, Z8, Z8>>)

Files ==
    { File(len, t @@ Put(0, sig) @@ CommonPart) :
          len \in Lengths, sig \in Signatures, t \in TextParts }
    \cup { File(4200, Put(0, sig) @@ CommonPart @@ b) :
               sig \in Signatures, b \in BugParts }
    \cup { File(len, Put(0, sig) @@ CommonPart @@ c @@ e) :
               len \in {4200}, sig \in {DUMP_SIGNATURE_64, NOTADUMP},
               c \in CtxParts, e \in ExcParts }
    \cup { [status |-> "missing", len |-> 0, data |-> NoData],
           [status |-> "unopenable", len |-> 4200, data |-> BasePart] }


(***************************************************************************)
(* analyzer.py: DumpAnalyzer.analyze, create_analysis_zip, analyze_dump.   *)
(***************************************************************************)
NOTE_HEADER_FAILED == "Failed to parse system info from header"
NOTE_HEADER_ERROR == "Header parsing error: "
NOTE_BUGCHECK_ERROR == "Bugcheck analysis error: "
NOTE_STACK_LIMITED == "Limited stack trace info available (Live Dump)"
NOTE_STACK_ERROR == "Stack trace parsing error: "
NOTE_DRIVERS_EMPTY ==
    "Driver list requires virtual address translation. Use WinDbg for complete driver list."
NOTE_DRIVERS_ERROR == "Driver extraction error: "

\* the largest elapsed time, in clock ticks, between the two time.time()
\* readings of analyze
MaxElapsed == 2

\* datetime.now().isoformat(): date, "T", time of day
NowIsoformat == <<"2024-01-15", "T", "10:30:00.000000">>

\* AnalysisMetadata as analyze fills it: the timestamp by __post_init__, the
\* duration (default 0.0) before the final return
Metadata(notes, size, elapsed) ==
    [analysis_timestamp |-> NowIsoformat,
     analysis_duration_seconds |-> elapsed,
     dump_file_path |-> dump_path,
     dump_file_name |-> basename(dump_path),
     dump_file_size_bytes |-> size,
     parser_notes |-> notes]

\* a not-found result that forgets the error string
NotFoundAnalysis_NoError ==
    [metadata |-> Metadata(<<>>, 0, 0),
     system_info |-> None, crash_summary |-> None,
     bugcheck_analysis |-> None, stack_trace |-> None, drivers |-> None,
     success |-> FALSE,
     error |-> None]

\* the CompleteAnalysis returned when the path does not exist
NotFoundAnalysis ==
    [metadata |-> Metadata(<<>>, 0, 0),
     system_info |-> None, crash_summary |-> None,
     bugcheck_analysis |-> None, stack_trace |-> None, drivers |-> None,
     success |-> FALSE,
     error |-> Some(<<"Dump file not found: ">> \o dump_path)]

\* a success flag that demands a decoded header
FinalSuccess_HeaderParsed == IsSome(system_info)

\* the success flag of the CompleteAnalysis built at the end of analyze
FinalSuccess == TRUE

\* the CompleteAnalysis returned at the end of analyze
FinalAnalysis(elapsed) ==
    [metadata |-> Metadata(parser_notes, fs.len, elapsed),
     system_info |-> system_info, crash_summary |-> crash_summary,
     bugcheck_analysis |-> bugcheck_analysis, stack_trace |-> stack_trace,
     drivers |-> drivers,
     success |-> FinalSuccess,
     error |-> None]

\* analyze: "if not os.path.exists(self.dump_path): return ..."
CheckExists ==
    /\ pc = "start"
    /\ IF fs.status = "missing"
       THEN /\ result' = Some(NotFoundAnalysis)
            /\ pc' = "returned"
       ELSE /\ result' = result
            /\ pc' = "header"
    /\ UNCHANGED <<fs, dump_path, create_zip, parser_notes, system_info,
                   crash_summary, bugcheck_analysis, stack_trace, drivers,
                   zip_path, archives, bc_args, open_handles>>
    /\ UNCHANGED serviceVars

\* step 1 without the note for a header that could not be parsed
HeaderNotes_Silent(r) ==
    IF r.exc # "none" THEN <<<<NOTE_HEADER_ERROR, r.exc>>>> ELSE <<>>

\* the notes step 1 appends for an outcome of parse_dump_header
HeaderNotes(r) ==
    IF r.exc # "none" THEN <<<<NOTE_HEADER_ERROR, r.exc>>>>
    ELSE IF ~IsSome(r.system_info) THEN <<<<NOTE_HEADER_FAILED>>>>
    ELSE <<>>

\* a with statement that keeps the handle when its body raised
Release_LeakOnError(handles, owner, raised) ==
    IF raised THEN handles ELSE handles \ {owner}

\* __exit__ of the with statement around a component's body: it runs on
\* every exit, whether the body returned or raised, and closes the file
Release(handles, owner, raised) == handles \ {owner}

\* what analyze step 1 keeps of the outcome of parse_dump_header
HeaderOutcome ==
    LET r == parse_dump_header(dump_path, fs)
    IN  /\ system_info' = r.system_info
        /\ crash_summary' = r.crash_summary
        /\ parser_notes' = parser_notes \o HeaderNotes(r)

\* analyze step 1, "with self._reader:" entered: DumpFileReader.open opens
\* the file; when open raises, the error leaves parse_dump_header at once
OpenReader ==
    /\ pc = "header"
    /\ IF fs.status = "ok"
       THEN /\ open_handles' = open_handles \cup {"DumpFileReader"}
            /\ pc' = "header_open"
            /\ UNCHANGED <<system_info, crash_summary, parser_notes>>
       ELSE /\ HeaderOutcome
            /\ pc' = "bugcheck"
            /\ open_handles' = open_handles
    /\ UNCHANGED <<fs, dump_path, create_zip, bugcheck_analysis, stack_trace,
                   drivers, result, zip_path, archives, bc_args>>
    /\ UNCHANGED serviceVars

\* analyze step 1: parse header on the opened file, then leave the with
ParseHeader ==
    /\ pc = "header_open"
    /\ HeaderOutcome
    /\ open_handles' =
           Release(open_handles, "DumpFileReader",
                   parse_header(fs).exc # "none")
    /\ pc' = "bugcheck"
    /\ UNCHANGED <<fs, dump_path, create_zip, bugcheck_analysis, stack_trace,
                   drivers, result, zip_path, archives, bc_args>>
    /\ UNCHANGED serviceVars

\* analyze step 2: analyze bugcheck, when a crash summary was produced
AnalyzeBugcheck ==
    /\ pc = "bugcheck"
    /\ IF IsSome(crash_summary)
       THEN LET cs == Get(crash_summary)
            IN  bugcheck_analysis' =
                    Some(analyze_bugcheck(cs.bugcheck_code_int,
                                          <<ParseHex(cs.parameter1),
                                            ParseHex(cs.parameter2),
                                            ParseHex(cs.parameter3),
                                            ParseHex(cs.parameter4)>>))
       ELSE bugcheck_analysis' = bugcheck_analysis
    /\ pc' = "stack"
    /\ UNCHANGED <<fs, dump_path, create_zip, parser_notes, system_info,
                   crash_summary, stack_trace, drivers, result, zip_path,
                   archives, bc_args, open_handles>>
    /\ UNCHANGED serviceVars

\* a step 3 that is skipped when the header gave no system info
OpenStackParser_NeedsHeader ==
    /\ pc = "stack"
    /\ IF fs.status = "ok" /\ IsSome(system_info)
       THEN /\ open_handles' = open_handles \cup {"StackTraceParser"}
            /\ pc' = "stack_open"
            /\ parser_notes' = parser_notes
       ELSE /\ parser_notes' =
                   Append(parser_notes, <<NOTE_STACK_ERROR, "OSError">>)
            /\ pc' = "drivers"
            /\ open_handles' = open_handles
    /\ UNCHANGED <<fs, dump_path, create_zip, system_info, crash_summary,
                   bugcheck_analysis, stack_trace, drivers, result, zip_path,
                   archives, bc_args>>
    /\ UNCHANGED serviceVars

\* analyze step 3, "with StackTraceParser(dump_path)" entered: __enter__
\* opens the file; when open raises, analyze notes the error
OpenStackParser ==
    /\ pc = "stack"
    /\ IF fs.status = "ok"
       THEN /\ open_handles' = open_handles \cup {"StackTraceParser"}
            /\ pc' = "stack_open"
            /\ parser_notes' = parser_notes
       ELSE /\ parser_notes' =
                   Append(parser_notes, <<NOTE_STACK_ERROR, "OSError">>)
            /\ pc' = "drivers"
            /\ open_handles' = open_handles
    /\ UNCHANGED <<fs, dump_path, create_zip, system_info, crash_summary,
                   bugcheck_analysis, stack_trace, drivers, result, zip_path,
                   archives, bc_args>>
    /\ UNCHANGED serviceVars

\* analyze step 3: parse stack trace on the opened file, then leave the with
ParseStackTrace ==
    /\ pc = "stack_open"
    /\ LET st == parse_stack_trace(fs)
       IN  /\ stack_trace' = Some(st)
           /\ parser_notes' =
                  IF ~st.has_context /\ ~st.has_exception
                  THEN Append(parser_notes, <<NOTE_STACK_LIMITED>>)
                  ELSE parser_notes
    /\ open_handles' = Release(open_handles, "StackTraceParser", FALSE)
    /\ pc' = "drivers"
    /\ UNCHANGED <<fs, dump_path, create_zip, system_info, crash_summary,
                   bugcheck_analysis, drivers, result, zip_path, archives,
                   bc_args>>
    /\ UNCHANGED serviceVars

\* analyze step 4, "with DriverListExtractor(dump_path)" entered: __enter__
\* opens the file; when open raises, analyze notes the error
OpenExtractor ==
    /\ pc = "drivers"
    /\ IF fs.status = "ok"
       THEN /\ open_handles' = open_handles \cup {"DriverListExtractor"}
            /\ pc' = "drivers_open"
            /\ parser_notes' = parser_notes
       ELSE /\ parser_notes' =
                   Append(parser_notes, <<NOTE_DRIVERS_ERROR, "OSError">>)
            /\ pc' = "return"
            /\ open_handles' = open_handles
    /\ UNCHANGED <<fs, dump_path, create_zip, system_info, crash_summary,
                   bugcheck_analysis, stack_trace, drivers, result, zip_path,
                   archives, bc_args>>
    /\ UNCHANGED serviceVars

\* analyze step 4: extract drivers from the opened file, then leave the with
ExtractDrivers ==
    /\ pc = "drivers_open"
    /\ LET d == extract_drivers(fs)
       IN  /\ drivers' = Some(d)
           /\ parser_notes' =
                  IF d.total_count = 0
                  THEN Append(parser_notes, <<NOTE_DRIVERS_EMPTY>>)
                  ELSE parser_notes
    /\ open_handles' = Release(open_handles, "DriverListExtractor", FALSE)
    /\ pc' = "return"
    /\ UNCHANGED <<fs, dump_path, create_zip, system_info, crash_summary,
                   bugcheck_analysis, stack_trace, result, zip_path, archives,
                   bc_args>>
    /\ UNCHANGED serviceVars

\* analyze: return CompleteAnalysis(..., success=True)
Return ==
    /\ pc = "return"
    /\ \E elapsed \in 0..MaxElapsed : result' = Some(FinalAnalysis(elapsed))
    /\ pc' = "returned"
    /\ UNCHANGED <<fs, dump_path, create_zip, parser_notes, system_info,
                   crash_summary, bugcheck_analysis, stack_trace, drivers,
                   zip_path, archives, bc_args, open_handles>>
    /\ UNCHANGED serviceVars

\* an archive that always carries the five component files
ArchiveMembers_AllComponents(analysis) ==
    {"analysis.json", "summary.txt", "README.txt", "system_info.json",
     "crash_summary.json", "bugcheck_analysis.json", "stack_trace.json",
     "drivers.json"}

\* the members create_analysis_zip writes
ArchiveMembers(analysis) ==
    {"analysis.json", "summary.txt", "README.txt"}
    \cup (IF IsSome(analysis.system_info) THEN {"system_info.json"} ELSE {})
    \cup (IF IsSome(analysis.crash_summary) THEN {"crash_summary.json"} ELSE {})
    \cup (IF IsSome(analysis.bugcheck_analysis)
          THEN {"bugcheck_analysis.json"} ELSE {})
    \cup (IF IsSome(analysis.stack_trace) THEN {"stack_trace.json"} ELSE {})
    \cup (IF IsSome(analysis.drivers) THEN {"drivers.json"} ELSE {})

\* zip_name = f"BSOD_Analysis_{dump_name}_{timestamp}.zip"
ZipName(analysis) ==
    <<"BSOD_Analysis_">> \o analysis.metadata.dump_file_name
    \o <<"_", "timestamp", ".zip">>

\* a gate that ignores the success flag
ShouldZip_Always(flag, analysis) == flag

\* a gate that also demands a decoded header
ShouldZip_NeedsHeader(flag, analysis) ==
    flag /\ analysis.success /\ IsSome(analysis.system_info)

\* analyze_dump: "if create_zip and analysis.success"
ShouldZip(flag, analysis) == flag /\ analysis.success

\* analyze_dump after analyze returned: optionally create the ZIP
CreateZip ==
    /\ pc = "returned"
    /\ LET analysis == Get(result)
       IN  IF ShouldZip(create_zip, analysis)
           THEN /\ zip_path' = Some(ZipName(analysis))
                /\ archives' = archives \cup
                       {[path |-> ZipName(analysis),
                         source |-> analysis.metadata.dump_file_path,
                         members |-> ArchiveMembers(analysis)]}
           ELSE /\ zip_path' = None
                /\ archives' = archives
    /\ pc' = "done"
    /\ UNCHANGED <<fs, dump_path, create_zip, parser_notes, system_info,
                   crash_summary, bugcheck_analysis, stack_trace, drivers,
                   result, bc_args, open_handles>>
    /\ UNCHANGED serviceVars

Init ==
    /\ fs \in Files
    /\ dump_path \in Paths
    /\ PathAdmits(dump_path, fs)
    /\ create_zip \in BOOLEAN
    /\ pc = "start"
    /\ parser_notes = <<>>
    /\ system_info = None
    /\ crash_summary = None
    /\ bugcheck_analysis = None
    /\ stack_trace = None
    /\ drivers = None
    /\ result = None
    /\ zip_path = None
    /\ archives = {}
    /\ bc_args = None
    /\ open_handles = {}
    /\ upload = None
    /\ validation = None
    /\ StoreEmpty
    /\ GuiInit

Next ==
    \/ CheckExists
    \/ OpenReader
    \/ ParseHeader
    \/ AnalyzeBugcheck
    \/ OpenStackParser
    \/ ParseStackTrace
    \/ OpenExtractor
    \/ ExtractDrivers
    \/ Return
    \/ CreateZip

Spec == Init /\ [][Next]_vars

(***************************************************************************)
(* analyze_bugcheck called directly, on any code and four u64 parameters.  *)
(***************************************************************************)
\* 0x1A, 0xD1, 0x50, 0x7F, 0x9F, 0xA0, 0x116, 0x139, 0x154, 0x1CA,
\* 0xDEADBEEF, 0, 0xFFFFFFFF
BugcheckCodes == { <<26>>, <<209>>, <<80>>, <<127>>, <<159>>, <<160>>,
                   <<22, 1>>, <<57, 1>>, <<84, 1>>, <<202, 1>>,
                   <<239, 190, 173, 222>>, Zero, <<255, 255, 255, 255>> }

U64Samples == { Zero, <<1>>, <<8>>, <<15>>, <<144, 23, 4>>, <<0, 0, 0, 0, 1>>,
                <<0, 16, 0, 0, 128, 248, 255, 255>>,
                <<255, 255, 255, 255, 255, 255, 255, 255>>,
                <<171, 205, 239, 0, 0, 0, 0, 16>> }

InitBugcheck ==
    /\ bc_args \in { Some([code |-> c, params |-> <<a, b, a, b>>]) :
                        c \in BugcheckCodes, a \in U64Samples, b \in U64Samples }
    /\ fs = [status |-> "missing", len |-> 0, data |-> NoData]
    /\ dump_path = <<>>
    /\ create_zip = FALSE
    /\ pc = "call"
    /\ parser_notes = <<>>
    /\ system_info = None
    /\ crash_summary = None
    /\ bugcheck_analysis = None
    /\ stack_trace = None
    /\ drivers = None
    /\ result = None
    /\ zip_path = None
    /\ archives = {}
    /\ open_handles = {}
    /\ upload = None
    /\ validation = None
    /\ StoreEmpty
    /\ GuiInit

\* analyze_bugcheck(code, p1, p2, p3, p4)
CallAnalyzeBugcheck ==
    /\ pc = "call"
    /\ bugcheck_analysis' =
           Some(analyze_bugcheck(Get(bc_args).code, Get(bc_args).params))
    /\ pc' = "called"
    /\ UNCHANGED <<fs, dump_path, create_zip, parser_notes, system_info,
                   crash_summary, stack_trace, drivers, result, zip_path,
                   archives, bc_args, open_handles>>
    /\ UNCHANGED serviceVars

NextBugcheck == CallAnalyzeBugcheck

SpecBugcheck == InitBugcheck /\ [][NextBugcheck]_vars


(***************************************************************************)
(* Properties.                                                             *)
(***************************************************************************)
Returned == IsSome(result)
Notes == Get(result).metadata.parser_notes
ValidSignature == validate_signature(fs)[1]
\* an existing, readable file whose first 8 bytes are no recognized signature
BadSignatureInput == fs.status = "ok" /\ ~ValidSignature
HeaderAbsent ==
    /\ Get(result).system_info = None
    /\ Get(result).crash_summary = None
    /\ Get(result).bugcheck_analysis = None

C3_ParameterCountBound ==
    (IsSome(stack_trace) /\ IsSome(Get(stack_trace).exception)) =>
        LET e == Get(Get(stack_trace).exception)
        IN  /\ FitsNat(e.num_parameters)
            /\ NatOf(e.num_parameters) <= MAX_EXCEPTION_PARAMS
            /\ Len(e.parameters) = NatOf(e.num_parameters)

\* the bytes s stand at offset off of the scanned window of the file
StandsAt(f, off, s) ==
    /\ off >= 0
    /\ off + Len(s) <= Min(SCAN_WINDOW, f.len)
    /\ \A k \in 1..Len(s) : Byte(f, off + k - 1) = s[k]

\* C4: when the first 8 KiB hold "nvlddmkm.sys" at some offset with
\* printable padding before it, extract_drivers returns total_count >= 1 and
\* a reference for nvlddmkm.sys that is problematic with the table's reason.
C4_ScavengerHit ==
    (IsSome(drivers)
     /\ \E off \in DOMAIN fs.data :
            StandsAt(fs, off, NVLDDMKM) /\ off > 0
            /\ Printable(Byte(fs, off - 1))) =>
        LET d == Get(drivers)
        IN  /\ d.total_count >= 1
            /\ \E k \in 1..Len(d.drivers) :
                   /\ d.drivers[k].name = NVLDDMKM
                   /\ d.drivers[k].is_problematic
                   /\ d.drivers[k].problematic_reason =
                          Some("NVIDIA Display Driver - common crash source")

\* the smallest length at which every fixed-offset header field is readable
HEADER_FIELDS_END == 4008

\* C5: for a recognized signature on a file too short for some fixed-offset
\* header field, the short read is not fatal: system_info and crash_summary
\* are produced and a parser note is appended.
C5_ShortReadNotFatal ==
    (Returned /\ fs.status = "ok" /\ ValidSignature
     /\ fs.len < HEADER_FIELDS_END) =>
        /\ IsSome(Get(result).system_info)
        /\ IsSome(Get(result).crash_summary)
        /\ Len(Notes) >= 1

C7_NoArchiveOnFailure ==
    (Returned /\ ~Get(result).success) => (zip_path = None /\ archives = {})

C7_Witness ==
    pc = "done" /\ ~Get(result).success /\ create_zip

\* C8: error is present iff success is false; for a missing path the result
\* has success = false, error = "Dump file not found: " + path, and all five
\* components absent.
C8_ErrorIffFailure ==
    Returned =>
        /\ IsSome(Get(result).error) <=> ~Get(result).success
        /\ fs.status = "missing" =>
               /\ ~Get(result).success
               /\ Get(result).error =
                      Some(<<"Dump file not found: ">> \o dump_path)
               /\ HeaderAbsent
               /\ Get(result).stack_trace = None
               /\ Get(result).drivers = None

C8_Witness ==
    Returned /\ fs.status = "missing" /\ IsSome(Get(result).error)

\* the context_flags word of the file
ContextFlagsWord ==
    StackUint32(fs, CONTEXT_RECORD_OFFSET_IN_HEADER + CONTEXT_FLAGS_OFFSET)

\* C9: when the context_flags word is zero the context is absent:
\* has_context is false, registers is absent, and stack_pointer and
\* instruction_pointer stay 0 even if the RSP and RIP words are non-zero.
C9_ZeroFlagsContextAbsent ==
    (IsSome(stack_trace) /\ ContextFlagsWord = Zero) =>
        LET st == Get(stack_trace)
        IN  /\ ~st.has_context
            /\ st.registers = None
            /\ st.stack_pointer = Zero
            /\ st.instruction_pointer = Zero

UpperHexSet == {HexDigits[v] : v \in 1..16}

\* C10: every hex_value produced by analyze_bugcheck is "0x" followed by
\* exactly 16 uppercase, zero-padded hex digits and parses back (base 16) to
\* the parameter it renders.
C10_HexRoundTrip ==
    (pc = "called") =>
        LET a == Get(bugcheck_analysis)
        IN  \A i \in 1..4 :
                LET h == a.parameters[i].hex_value
                IN  /\ Len(h) = 18
                    /\ h[1] = "0" /\ h[2] = "x"
                    /\ \A k \in 3..18 : h[k] \in UpperHexSet
                    /\ ParseHex(h) = Get(bc_args).params[i]
                    /\ a.parameters[i].raw_value = Get(bc_args).params[i]

C10_Witness ==
    /\ pc = "called"
    /\ Get(bc_args).params[1] = <<255, 255, 255, 255, 255, 255, 255, 255>>
    /\ Get(bc_args).params[2] = <<1>>
    /\ Get(bugcheck_analysis).parameters[2].hex_value =
           <<"0", "x", "0", "0", "0", "0", "0", "0", "0", "0",
             "0", "0", "0", "0", "0", "0", "0", "1">>

(***************************************************************************)
(* Properties of the module scavenger and of the analysis metadata.        *)
(***************************************************************************)
\* C11: every DriverInfo produced by the scavenger has is_microsoft and
\* is_problematic populated (booleans), and problematic_reason is present
\* exactly when is_problematic is true; the reason is then the table's.
C11_ReasonIffProblematic ==
    IsSome(drivers) =>
        \A k \in 1..Len(Get(drivers).drivers) :
            LET d == Get(drivers).drivers[k]
            IN  /\ d.is_microsoft \in BOOLEAN
                /\ d.is_problematic \in BOOLEAN
                /\ IsSome(d.problematic_reason) <=> d.is_problematic
                /\ d.is_problematic =>
                       <<Lower(d.name), Get(d.problematic_reason)>>
                           \in KNOWN_PROBLEMATIC_DRIVERS

C11_Witness ==
    /\ IsSome(drivers)
    /\ \E k \in 1..Len(Get(drivers).drivers) :
           /\ Get(drivers).drivers[k].is_problematic
           /\ IsSome(Get(drivers).drivers[k].problematic_reason)
    /\ \E k \in 1..Len(Get(drivers).drivers) :
           /\ ~Get(drivers).drivers[k].is_problematic
           /\ Get(drivers).drivers[k].is_microsoft

\* C12: for every input path (existing or not, the empty path and a path
\* ending in a separator included) the CompleteAnalysis returned by analyze
\* has a non-empty analysis_timestamp, a non-negative
\* analysis_duration_seconds and a non-empty dump_file_name.
C12_MetadataPopulated ==
    Returned =>
        LET md == Get(result).metadata
        IN  /\ md.analysis_timestamp # <<>>
            /\ md.analysis_duration_seconds >= 0
            /\ md.dump_file_name # <<>>

(***************************************************************************)
(* Properties of analyze_bugcheck.                                         *)
(***************************************************************************)
\* the codes that some curated table of bugcheck.py lists
CuratedCodes ==
    UNION {BUGCHECK_CATEGORIES[k][2] : k \in 1..Len(BUGCHECK_CATEGORIES)}
    \cup SEVERITY_CRITICAL \cup SEVERITY_HIGH
    \cup {e[1] : e \in LIKELY_CAUSES} \cup {e[1] : e \in RECOMMENDATIONS}

\* C13: analyze_bugcheck produces an analysis for every u32 code, with
\* exactly four parameter analyses numbered 1..4 in order that echo the
\* arguments; for a code in none of the curated tables the category is
\* "Other", the severity "Medium", and likely_causes and recommendations
\* are the non-empty generic fallback lists.
C13_UnknownCodeFallbacks ==
    (pc = "called") =>
        LET a == Get(bugcheck_analysis)
            args == Get(bc_args)
        IN  /\ a.code = args.code
            /\ Len(a.parameters) = 4
            /\ \A i \in 1..4 :
                   /\ a.parameters[i].parameter_number = i
                   /\ a.parameters[i].raw_value = args.params[i]
            /\ args.code \notin CuratedCodes =>
                   /\ a.category = "Other"
                   /\ a.severity = "Medium"
                   /\ a.likely_causes =
                          <<"Driver compatibility issue",
                            "Hardware malfunction",
                            "Corrupted system files">>
                   /\ a.recommendations =
                          <<"Update all drivers to latest versions",
                            "Run System File Checker (sfc /scannow)",
                            "Check Windows Event Viewer for more details",
                            "Run Windows Memory Diagnostic">>

C13_Witness ==
    /\ pc = "called"
    /\ Get(bc_args).code = <<239, 190, 173, 222>>
    /\ Get(bc_args).params[1] = Zero
    /\ Get(bugcheck_analysis).category = "Other"
    /\ Len(Get(bugcheck_analysis).parameters) = 4

\* C14: a parameter's interpretation is present exactly when (code, index,
\* value) is an entry of a sub-type table: (0x1A, 1, memory-management
\* subtype), (0x7F, 1, trap number), (0x50, 2, operation), (0xD1, 3,
\* operation); 0x1A with param1 = 0x41790 and 0xD1 with param3 = 1 yield
\* the documented strings; every other triple has no interpretation.
C14_InterpretationIffListed ==
    (pc = "called") =>
        LET a == Get(bugcheck_analysis)
            code == Get(bc_args).code
        IN  \A i \in 1..4 :
                LET v == Get(bc_args).params[i]
                    interp == a.parameters[i].interpretation
                    table == IF code = <<26>> /\ i = 1
                             THEN MEMORY_MANAGEMENT_SUBTYPES
                             ELSE IF code = <<127>> /\ i = 1 THEN TRAP_NUMBERS
                             ELSE IF code = <<80>> /\ i = 2 THEN PAGE_FAULT_OPS
                             ELSE IF code = <<209>> /\ i = 3
                                  THEN DRIVER_IRQL_OPS
                             ELSE {}
                IN  /\ IsSome(interp) <=> \E e \in table : e[1] = v
                    /\ IsSome(interp) => <<v, Get(interp)>> \in table
                    /\ (code = <<26>> /\ i = 1 /\ v = <<144, 23, 4>>) =>
                           interp =
                               Some("The page frame number list is corrupt.")
                    /\ (code = <<209>> /\ i = 3 /\ v = <<1>>) =>
                           interp = Some("Write operation")

C14_Witness ==
    /\ pc = "called"
    /\ Get(bc_args).code = <<209>>
    /\ Get(bc_args).params[3] = <<1>>
    /\ Get(bugcheck_analysis).parameters[3].interpretation =
           Some("Write operation")
    /\ Get(bugcheck_analysis).parameters[1].interpretation = None

HandlePositions ==
    [header_open |-> "DumpFileReader", stack_open |-> "StackTraceParser",
     drivers_open |-> "DriverListExtractor"]

\* C16: every read handle opened on the dump file during analyze is
\* released on every exit path of its enclosing operation, also when the
\* component raises: at most one handle is open at any time, it belongs to
\* the component whose body is running, and none is open between the
\* components or once analyze has returned.
C16_HandlesReleased ==
    /\ Cardinality(open_handles) <= 1
    /\ IF pc \in DOMAIN HandlePositions
       THEN open_handles = {HandlePositions[pc]}
       ELSE open_handles = {}

\* the header decoder raised inside its with body and analyze has returned
C16_Witness ==
    /\ Returned
    /\ fs.status = "ok"
    /\ parse_header(fs).exc = StructError
    /\ Notes[1] = <<NOTE_HEADER_ERROR, StructError>>
    /\ IsSome(stack_trace) /\ IsSome(drivers)
    /\ open_handles = {}

(***************************************************************************)
(* src/backend/src/services/zip_validator.py: ZipValidator.                *)
(*                                                                         *)
(* An upload is its length and what zipfile makes of its bytes: not a ZIP, *)
(* or a ZIP with a name list and the content of analysis.json (unreadable, *)
(* not UTF-8, not JSON, or a JSON value).  A JSON value is a record with   *)
(* its type t; a string is the tuple of its words.                         *)
(***************************************************************************)
JNull == [t |-> "null"]
JBool(b) == [t |-> "bool", b |-> b]
JNum(n) == [t |-> "number", n |-> n]
JStr(words) == [t |-> "string", s |-> words]
JList(items) == [t |-> "array", items |-> items]
JObj(fields) == [t |-> "object", fields |-> fields]

\* bool(value) of a value json.loads produced
Truthy(v) ==
    IF v.t = "null" THEN FALSE
    ELSE IF v.t = "bool" THEN v.b
    ELSE IF v.t = "number" THEN v.n # 0
    ELSE IF v.t = "string" THEN v.s # <<>>
    ELSE IF v.t = "array" THEN v.items # <<>>
    ELSE DOMAIN v.fields # {}

\* "field in data": a key of a dict, an item of a list, a substring of a
\* str; a TypeError for None, a bool or a number
PyIn(field, data) ==
    IF data.t = "object" THEN [exc |-> "none", v |-> field \in DOMAIN data.fields]
    ELSE IF data.t = "array"
         THEN [exc |-> "none",
               v |-> \E k \in 1..Len(data.items) :
                         data.items[k] = JStr(<<field>>)]
    ELSE IF data.t = "string"
         THEN [exc |-> "none", v |-> \E k \in 1..Len(data.s) : data.s[k] = field]
    ELSE [exc |-> "TypeError", v |-> FALSE]

\* data.get(key, default): only a dict has get
PyGet(data, key, default) ==
    IF data.t # "object" THEN [exc |-> "AttributeError", v |-> JNull]
    ELSE IF key \in DOMAIN data.fields
         THEN [exc |-> "none", v |-> data.fields[key]]
    ELSE [exc |-> "none", v |-> default]

EmptyObj == JObj([k \in {} |-> JNull])

ZVE == "ZipValidationError"

\* ZipValidator._validate_analysis_structure: the exception it raises
\* ("none" when it returns) and the message
validate_analysis_structure(data) ==
    LET has_metadata == PyIn("metadata", data)
        has_success == PyIn("success", data)
        metadata == PyGet(data, "metadata", EmptyObj)
        tool_name == PyGet(metadata.v, "tool_name", JNull)
        cs == PyGet(data, "crash_summary", JNull)
        ba == PyGet(data, "bugcheck_analysis", JNull)
    IN  IF has_metadata.exc # "none"
        THEN [exc |-> has_metadata.exc, msg |-> <<"argument is not iterable">>]
        ELSE IF ~has_metadata.v
        THEN [exc |-> ZVE, msg |-> <<"Missing required field: ", "metadata">>]
        ELSE IF ~has_success.v
        THEN [exc |-> ZVE, msg |-> <<"Missing required field: ", "success">>]
        ELSE IF metadata.exc # "none"
        THEN [exc |-> metadata.exc, msg |-> <<"object has no attribute 'get'">>]
        ELSE IF tool_name.exc # "none"
        THEN [exc |-> tool_name.exc, msg |-> <<"object has no attribute 'get'">>]
        ELSE IF ~Truthy(tool_name.v)
        THEN [exc |-> ZVE, msg |-> <<"Missing tool_name in metadata">>]
        ELSE IF ~Truthy(cs.v) /\ ~Truthy(ba.v)
        THEN [exc |-> ZVE,
              msg |-> <<"No crash data found. Both crash_summary and bugcheck_analysis are missing.">>]
        ELSE [exc |-> "none", msg |-> <<>>]

\* the value is None or a dict, as an Optional[...Model] field demands
OptionalModel(data, key) ==
    key \in DOMAIN data.fields =>
        data.fields[key].t \in {"null", "object"}

\* AnalysisDataModel(**raw_data) validates: metadata is a MetadataModel
\* (tool_name: str), success a bool, the components None or objects
ModelAccepts(data) ==
    /\ data.t = "object"
    /\ "metadata" \in DOMAIN data.fields
    /\ data.fields["metadata"].t = "object"
    /\ "tool_name" \in DOMAIN data.fields["metadata"].fields
    /\ data.fields["metadata"].fields["tool_name"].t = "string"
    /\ "success" \in DOMAIN data.fields
    /\ data.fields["success"].t = "bool"
    /\ OptionalModel(data, "crash_summary")
    /\ OptionalModel(data, "bugcheck_analysis")

\* ZipValidator._extract_analysis_data on a readable ZIP
extract_analysis_data(content) ==
    LET a == content.analysis
        st == validate_analysis_structure(a.value)
    IN  IF "analysis.json" \notin content.members
        THEN [exc |-> ZVE,
              msg |-> <<"Missing required file: ", "analysis.json">>]
        ELSE IF a.kind = "unreadable"
        THEN [exc |-> "BadZipFile", msg |-> <<"Bad CRC-32 for file 'analysis.json'">>]
        ELSE IF a.kind = "not_utf8"
        THEN [exc |-> "UnicodeDecodeError",
              msg |-> <<"'utf-8' codec can't decode byte">>]
        ELSE IF a.kind = "not_json"
        THEN [exc |-> "JSONDecodeError", msg |-> <<"Expecting value">>]
        ELSE IF st.exc # "none" THEN st
        ELSE IF ~ModelAccepts(a.value)
        THEN [exc |-> "ValidationError", msg |-> <<"validation error for AnalysisDataModel">>]
        ELSE [exc |-> "none", msg |-> <<>>, raw_data |-> a.value]

\* the except clauses of validate_and_extract: JSONDecodeError first, then
\* every other Exception, a ZipValidationError of the body included
WrapException(r) ==
    IF r.exc = "JSONDecodeError"
    THEN [exc |-> ZVE, msg |-> <<"Invalid JSON in analysis.json: ">> \o r.msg]
    ELSE [exc |-> ZVE, msg |-> <<"Failed to extract data: ">> \o r.msg]

\* ZipValidator.validate_and_extract(file_content)
validate_and_extract(max_size_bytes, file_content) ==
    LET r == extract_analysis_data(file_content.content)
    IN  IF file_content.size > max_size_bytes
        THEN [exc |-> ZVE,
              msg |-> <<"File too large: ",
                        "{size_mb:.2f} MB (max: {max_mb:.2f} MB)">>]
        ELSE IF ~file_content.content.zip
        THEN [exc |-> ZVE, msg |-> <<"Invalid ZIP file format">>]
        ELSE IF r.exc = "none" THEN r
        ELSE WrapException(r)

\* the largest upload length, in units of the validator's size limit
MaxUploadSize == 3

ToolName == JStr(<<"BSSOD", "Analyzer", "Parser", "Tool">>)

MetadataValues ==
    { JObj([k \in {"tool_name"} |-> ToolName]),
      JObj([k \in {"tool_name"} |-> JNum(5)]),
      EmptyObj, JStr(<<"x">>), JNull }

SuccessValues == { JBool(TRUE), JBool(FALSE), JStr(<<"maybe">>) }

CrashSummaryValues ==
    { JObj([k \in {"bugcheck_code"} |-> JStr(<<"0x0000001A">>)]),
      EmptyObj, JNull }

TopLevelKeys == {"metadata", "success", "crash_summary", "bugcheck_analysis"}

\* what json.loads can make of analysis.json
JsonValues ==
    { JObj([k \in K |->
               IF k = "metadata" THEN m
               ELSE IF k = "success" THEN sc
               ELSE IF k = "crash_summary" THEN cs
               ELSE JObj([n \in {"code"} |-> JNum(26)])]) :
          K \in SUBSET TopLevelKeys, m \in MetadataValues,
          sc \in SuccessValues, cs \in CrashSummaryValues }
    \cup { JNum(5), JNull, JBool(TRUE), JList(<<>>),
           JList(<<JStr(<<"metadata">>), JStr(<<"success">>)>>),
           JStr(<<"metadata", "success">>), JStr(<<"x">>) }

NoAnalysis == [kind |-> "none", value |-> JNull]

AnalysisContents ==
    { [kind |-> k, value |-> JNull] : k \in {"unreadable", "not_utf8", "not_json"} }
    \cup { [kind |-> "json", value |-> v] : v \in JsonValues }

UploadContents ==
    { [zip |-> FALSE, members |-> {}, analysis |-> NoAnalysis] }
    \cup { [zip |-> TRUE, members |-> ms, analysis |-> NoAnalysis] :
               ms \in { {}, {"other.json"} } }
    \cup { [zip |-> TRUE, members |-> ms, analysis |-> a] :
               ms \in { {"analysis.json"},
                        {"analysis.json", "summary.txt", "README.txt"} },
               a \in AnalysisContents }

\* the uploads: a ZIP has at least one unit of bytes
Uploads ==
    { [max_size_bytes |-> MaxUploadSize - 1, size |-> n, content |-> c] :
          n \in 0..MaxUploadSize, c \in UploadContents }
    \ { u \in [max_size_bytes : {MaxUploadSize - 1}, size : {0},
               content : UploadContents] : u.content.zip }

\* the parser tool is not running
ParserIdle ==
    /\ fs = [status |-> "missing", len |-> 0, data |-> NoData]
    /\ dump_path = <<>>
    /\ create_zip = FALSE
    /\ parser_notes = <<>>
    /\ system_info = None
    /\ crash_summary = None
    /\ bugcheck_analysis = None
    /\ stack_trace = None
    /\ drivers = None
    /\ result = None
    /\ zip_path = None
    /\ archives = {}
    /\ bc_args = None
    /\ open_handles = {}

parserVars == <<fs, dump_path, create_zip, parser_notes, system_info,
                crash_summary, bugcheck_analysis, stack_trace, drivers,
                result, zip_path, archives, bc_args, open_handles>>

InitZip ==
    /\ ParserIdle
    /\ pc = "upload"
    /\ upload \in {Some(u) : u \in Uploads}
    /\ validation = None
    /\ StoreEmpty
    /\ GuiInit

\* validator.validate_and_extract(content) of the /analyze route
ValidateAndExtract ==
    /\ pc = "upload"
    /\ validation' =
           Some(validate_and_extract(Get(upload).max_size_bytes, Get(upload)))
    /\ pc' = "validated"
    /\ UNCHANGED <<parserVars, guiVars, upload, storeVars>>

NextZip == ValidateAndExtract

SpecZip == InitZip /\ [][NextZip]_vars

\* the message v carries the text of a check
MessageHas(v, label) == \E k \in 1..Len(v.msg) : v.msg[k] = label

\* the decoded value has no top-level field of that name
LacksField(value, field) ==
    value.t # "object" \/ field \notin DOMAIN value.fields

\* C17: validate_and_extract either returns or raises ZipValidationError,
\* never another exception; the checks come in the order size limit, ZIP
\* format, presence of analysis.json, JSON validity, required structure,
\* and the first failing check determines (is named by) the error message.
C17_FirstFailingCheck ==
    (pc = "validated") =>
        LET v == Get(validation)
            u == Get(upload)
            c == u.content
        IN  /\ v.exc \in {"none", ZVE}
            /\ IF u.size > u.max_size_bytes
               THEN v.exc = ZVE /\ MessageHas(v, "File too large: ")
               ELSE IF ~c.zip
               THEN v.exc = ZVE /\ MessageHas(v, "Invalid ZIP file format")
               ELSE IF "analysis.json" \notin c.members
               THEN v.exc = ZVE /\ MessageHas(v, "Missing required file: ")
               ELSE IF c.analysis.kind = "not_json"
               THEN v.exc = ZVE
                    /\ MessageHas(v, "Invalid JSON in analysis.json: ")
               ELSE IF c.analysis.kind = "json"
                       /\ (LacksField(c.analysis.value, "metadata")
                           \/ LacksField(c.analysis.value, "success"))
               THEN v.exc = ZVE /\ MessageHas(v, "Missing required field: ")
               ELSE TRUE

(***************************************************************************)
(* ConversationStore and the /chat routes that use it                      *)
(* (src/backend/src/services/conversation_service.py, api/routes.py).      *)
(* A session id is the index of its ConversationContext in contexts: each  *)
(* uuid4 is fresh.  _sessions is the sequence of its keys in insertion     *)
(* order; the value of a key is the context object of that id.             *)
(***************************************************************************)
\* ConversationStore(max_sessions, session_ttl_hours), scaled down
MaxSessions == 2
SessionTtl == 1
\* the sessions ever created, the clock and the history length
MaxCreated == 3
MaxClock == 2
MaxMessages == 4

SessionIds == 1..MaxCreated

\* now - ctx.created_at > self._session_ttl
IsExpired(ctx, t) == t - ctx.created_at > SessionTtl

\* del self._sessions[sid] for every sid of gone
Without(seq, gone) == SelectSeq(seq, LAMBDA sid : sid \notin gone)

InSessions(seq, sid) == \E k \in 1..Len(seq) : seq[k] = sid

\* sorted(self._sessions.items(), key=lambda x: x[1].created_at): stable
RECURSIVE sorted_sessions(_, _)
sorted_sessions(seq, ctxs) ==
    IF seq = <<>> THEN <<>>
    ELSE LET k == CHOOSE i \in 1..Len(seq) :
                      \A j \in 1..Len(seq) :
                          \/ ctxs[seq[i]].created_at < ctxs[seq[j]].created_at
                          \/ /\ ctxs[seq[i]].created_at = ctxs[seq[j]].created_at
                             /\ i <= j
         IN  <<seq[k]>> \o sorted_sessions(Without(seq, {seq[k]}), ctxs)

\* _cleanup_old_sessions: the keys that remain
cleanup_old_sessions(seq, ctxs, t) ==
    LET expired_ids == { seq[k] : k \in { i \in 1..Len(seq) :
                                             IsExpired(ctxs[seq[i]], t) } }
        kept == Without(seq, expired_ids)
    IN  IF Len(kept) >= MaxSessions
        THEN LET srt == sorted_sessions(kept, ctxs)
                 to_remove == Max(1, Len(srt) \div 10)
             IN  Without(kept, { srt[k] : k \in 1..to_remove })
        ELSE kept

\* create_session without the cleanup of a full store
create_session_NoCleanup(seq, ctxs, t) ==
    [ sessions |-> Append(seq, Len(ctxs) + 1),
      contexts |-> Append(ctxs, [created_at |-> t, messages |-> <<>>]) ]

\* create_session: the store and the objects afterwards
create_session(seq, ctxs, t) ==
    LET room == IF Len(seq) >= MaxSessions
                THEN cleanup_old_sessions(seq, ctxs, t)
                ELSE seq
    IN  [ sessions |-> Append(room, Len(ctxs) + 1),
          contexts |-> Append(ctxs, [created_at |-> t, messages |-> <<>>]) ]

\* get_session: the store afterwards and the Optional context returned
get_session(seq, ctxs, t, sid) ==
    IF ~InSessions(seq, sid)
    THEN [ sessions |-> seq, context |-> None ]
    ELSE IF IsExpired(ctxs[sid], t)
    THEN [ sessions |-> Without(seq, {sid}), context |-> None ]
    ELSE [ sessions |-> seq, context |-> Some(sid) ]

\* update_session: self._sessions[context.session_id] = context
update_session(seq, sid) ==
    IF InSessions(seq, sid) THEN seq ELSE Append(seq, sid)

\* delete_session
delete_session(seq, sid) == Without(seq, {sid})

\* ConversationContext.add_message
add_message(ctxs, sid, role) ==
    [ctxs EXCEPT ![sid].messages = Append(@, role)]

\* the requests that have added their user message to the context of sid
\* and wait for the AI
Awaiting(sid) ==
    { h \in Handlers : handlers[h].pc = "awaiting"
                       /\ handlers[h].session_id = sid }

session_count == Len(sessions)

InitChat ==
    /\ ParserIdle
    /\ pc = "serving"
    /\ upload = None
    /\ validation = None
    /\ StoreEmpty
    /\ GuiInit

\* POST /chat/start
StartChat ==
    /\ pc = "serving"
    /\ Len(contexts) < MaxCreated
    /\ LET made == create_session(sessions, contexts, now)
       IN  /\ sessions' = made.sessions
           /\ contexts' = made.contexts
    /\ UNCHANGED <<parserVars, guiVars, pc, upload, validation, now, handlers>>

\* POST /chat up to the await of the AI call
SendChatMessage(h, sid) ==
    /\ pc = "serving"
    /\ handlers[h].pc = "idle"
    /\ LET got == get_session(sessions, contexts, now, sid)
       IN  /\ sessions' = got.sessions
           /\ IF got.context = None
              THEN UNCHANGED <<contexts, handlers>>
              ELSE /\ Len(contexts[sid].messages)
                          + Cardinality(Awaiting(sid)) + 2 <= MaxMessages
                   /\ contexts' = add_message(contexts, sid, "user")
                   /\ handlers' = [handlers EXCEPT
                          ![h] = [pc |-> "awaiting", session_id |-> sid]]
    /\ UNCHANGED <<parserVars, guiVars, pc, upload, validation, now>>

\* POST /chat after the AI answered
ChatReply(h) ==
    /\ pc = "serving"
    /\ handlers[h].pc = "awaiting"
    /\ LET sid == handlers[h].session_id
       IN  /\ contexts' = add_message(contexts, sid, "assistant")
           /\ sessions' = update_session(sessions, sid)
    /\ handlers' = [handlers EXCEPT ![h] = [pc |-> "idle", session_id |-> 0]]
    /\ UNCHANGED <<parserVars, guiVars, pc, upload, validation, now>>

\* POST /chat after the AI call raised AIServiceError
ChatFail(h) ==
    /\ pc = "serving"
    /\ handlers[h].pc = "awaiting"
    /\ handlers' = [handlers EXCEPT ![h] = [pc |-> "idle", session_id |-> 0]]
    /\ UNCHANGED <<parserVars, guiVars, pc, upload, validation, now, sessions,
                   contexts>>

\* store.delete_session(session_id)
DeleteSession(sid) ==
    /\ pc = "serving"
    /\ InSessions(sessions, sid)
    /\ sessions' = delete_session(sessions, sid)
    /\ UNCHANGED <<parserVars, guiVars, pc, upload, validation, now, contexts,
                   handlers>>

\* time passes
Tick ==
    /\ pc = "serving"
    /\ now < MaxClock
    /\ now' = now + 1
    /\ UNCHANGED <<parserVars, guiVars, pc, upload, validation, sessions,
                   contexts, handlers>>

NextChat ==
    \/ StartChat
    \/ \E h \in Handlers, sid \in SessionIds : SendChatMessage(h, sid)
    \/ \E h \in Handlers : ChatReply(h)
    \/ \E h \in Handlers : ChatFail(h)
    \/ \E sid \in SessionIds : DeleteSession(sid)
    \/ Tick

SpecChat == InitChat /\ [][NextChat]_vars

\* C18: the ConversationStore never keeps more than max_sessions sessions:
\* after any sequence and any interleaving of create_session, get_session,
\* update_session and delete_session, session_count <= max_sessions.
C18_SessionCountBounded == session_count <= MaxSessions

\* C19: the exception record is decoded at the variant-specific offset
\* (0x348 in the 64-bit variant, 0x07D0 in the 32-bit variant), and that
\* offset is the one the header decoder records as
\* DumpHeader.exception_record_offset for the same file.
C19_ExceptionOffsetAgrees ==
    (IsSome(stack_trace) /\ fs.status = "ok" /\ parse_header(fs).exc = "none")
        => LET header == parse_header(fs).header
               exc_base == EXCEPTION_RECORD_OFFSET_IN_HEADER
           IN  /\ exc_base = (IF header.is_64bit THEN 840 ELSE 2000)
               /\ exc_base = header.exception_record_offset
               /\ Get(stack_trace).has_exception
                      = (StackUint32(fs, header.exception_record_offset
                                         + EXCEPTION_CODE_OFFSET) # Zero)

\* the note contains the sentence
NoteStates(note, sentence) == \E k \in 1..Len(note) : note[k] = sentence

\* C20: the StackTrace note describes which of the two records were found,
\* in all four combinations of has_context and has_exception: whenever
\* has_context is false the note states that the context record was not
\* found, and whenever has_exception is false the note states that there is
\* no exception record.
C20_NoteDescribesRecords ==
    IsSome(stack_trace) =>
        LET st == Get(stack_trace)
        IN  /\ ~st.has_context =>
                   NoteStates(st.note, "Context record not found or invalid. ")
            /\ ~st.has_exception =>
                   NoteStates(st.note, "No exception record. This may be a live dump or the exception was not captured.")

\* the parameter<i> strings of a CrashSummary
SummaryParameters(cs) ==
    <<cs.parameter1, cs.parameter2, cs.parameter3, cs.parameter4>>

\* C21: whenever a CrashSummary is produced, the BugcheckAnalysis of the same
\* CompleteAnalysis is built from exactly its values: the code is
\* bugcheck_code_int, parameters[i].raw_value is the header's i-th bug-check
\* parameter and parameters[i].hex_value is crash_summary.parameter<i>;
\* bugcheck_analysis is present iff crash_summary is present.
C21_BugcheckFromSummary ==
    IsSome(result) =>
        LET r == Get(result)
        IN  /\ IsSome(r.bugcheck_analysis) <=> IsSome(r.crash_summary)
            /\ IsSome(r.crash_summary) =>
                   LET cs == Get(r.crash_summary)
                       ba == Get(r.bugcheck_analysis)
                       header == parse_header(fs).header
                   IN  /\ ba.code = cs.bugcheck_code_int
                       /\ Len(ba.parameters) = 4
                       /\ \A i \in 1..4 :
                              /\ ba.parameters[i].parameter_number = i
                              /\ ba.parameters[i].raw_value
                                     = header.bugcheck_params[i]
                              /\ ba.parameters[i].hex_value
                                     = SummaryParameters(cs)[i]

\* a returned analysis of a 32-bit dump with a crash summary whose first
\* parameter is not zero
C21_Witness ==
    /\ IsSome(result)
    /\ IsSome(Get(result).crash_summary)
    /\ IsSome(Get(result).bugcheck_analysis)
    /\ ~Get(Get(result).system_info).is_64bit
    /\ Get(Get(result).bugcheck_analysis).parameters[1].raw_value # Zero

\* the positions of analyze after step 2, after step 3 and after step 4
AfterBugcheck ==
    {"stack", "stack_open", "drivers", "drivers_open", "return", "returned",
     "done"}
AfterStack == {"drivers", "drivers_open", "return", "returned", "done"}
AfterDrivers == {"return", "returned", "done"}

\* C22: the context/exception decoder and the module scavenger run on every
\* existing, readable input whatever the header decoder's outcome: the
\* returned CompleteAnalysis has stack_trace and drivers present even when
\* the signature is invalid or header decoding failed, and the two run
\* after the header and bug-check steps, in that order.
C22_StackAndDriversAlways ==
    /\ (IsSome(result) /\ fs.status = "ok") =>
           /\ IsSome(Get(result).stack_trace)
           /\ IsSome(Get(result).drivers)
    /\ (IsSome(system_info) \/ IsSome(crash_summary)) =>
           pc \notin {"start", "header", "header_open"}
    /\ IsSome(bugcheck_analysis) => pc \in AfterBugcheck
    /\ IsSome(stack_trace) => pc \in AfterStack
    /\ IsSome(drivers) => pc \in AfterDrivers
    /\ (fs.status = "ok" /\ pc \in AfterStack) => IsSome(stack_trace)
    /\ (fs.status = "ok" /\ pc \in AfterDrivers) => IsSome(drivers)

\* an analysis returned for a readable file whose header was not decoded
C22_Witness ==
    /\ IsSome(result)
    /\ fs.status = "ok"
    /\ Get(result).system_info = None
    /\ Get(result).crash_summary = None
    /\ IsSome(Get(result).stack_trace)
    /\ IsSome(Get(result).drivers)
    /\ Get(Get(result).stack_trace).has_exception

\* b'.sys'
SYS_SUFFIX == <<46, 115, 121, 115>>

\* C23: for every input, every module name in the scavenger's result ends
\* with '.sys', has at least three bytes before that suffix, does not begin
\* with '.', consists only of printable ASCII bytes (0x20 <= b < 0x7F), and
\* no two references of the result have the same name (names that differ
\* only in letter case are distinct names).
C23_ScavengedNames ==
    IsSome(drivers) =>
        LET ds == Get(drivers).drivers
        IN  /\ \A k \in 1..Len(ds) :
                   LET name == ds[k].name
                       n == Len(name)
                   IN  /\ n >= 3 + 4
                       /\ SubSeq(name, n - 3, n) = SYS_SUFFIX
                       /\ name[1] # 46
                       /\ \A j \in 1..n : name[j] >= 32 /\ name[j] < 127
            /\ \A j, k \in 1..Len(ds) : j # k => ds[j].name # ds[k].name

\* the scan of a file that holds one name in both letter cases: two
\* references, one per spelling
C23_Witness ==
    /\ IsSome(drivers)
    /\ StandsAt(fs, TextOffset, NVLDDMKM)
    /\ StandsAt(fs, 600, NVLDDMKM_UPPER)
    /\ Len(Get(drivers).drivers) = 2
    /\ Get(drivers).drivers[1].name = NVLDDMKM
    /\ Get(drivers).drivers[2].name = NVLDDMKM_UPPER

\* user, assistant, user, assistant, ...
Alternates(messages) ==
    \A k \in 1..Len(messages) :
        messages[k] = (IF k % 2 = 1 THEN "user" ELSE "assistant")

\* C24: after any sequence of /chat requests on one session, requests whose
\* AI call fails and requests that overlap in time included, the stored
\* message history of the session strictly alternates user, assistant, ...
\* starting with a user message, and a failed request leaves no orphan user
\* message behind.
C24_HistoryAlternates ==
    \A sid \in 1..Len(contexts) :
        (InSessions(sessions, sid) /\ Awaiting(sid) = {}) =>
            /\ Alternates(contexts[sid].messages)
            /\ Len(contexts[sid].messages) % 2 = 0

(***************************************************************************)
(* gui_app.py: BSODAnalyzerApp.  The handlers run one at a time on the     *)
(* main thread; _run_analysis runs on a thread of its own and hands its    *)
(* completion back with after(0, ...).                                     *)
(***************************************************************************)
\* the analysis threads started in one run of the application
MaxAnalyses == 3

\* the dump files the user can pick in the file dialog
GuiFiles == { <<"a", ".dmp">>, <<"b", ".dmp">> }

\* Path(dump_path).stem: the name without its last suffix
Stem(path) == SubSeq(path, 1, Len(path) - 1)

\* default_name of _export_zip
DefaultZipName(path) == <<"BSOD_Analysis_">> \o Stem(path) \o <<".zip">>

\* a start that does not look at is_analyzing
MayStart_IgnoreRunning(g) == IsSome(g.dump_path)

\* _start_analysis: "if not self.dump_path or self.is_analyzing: return"
MayStart(g) == IsSome(g.dump_path) /\ ~g.is_analyzing

\* the threads inside _run_analysis
RunningWorkers ==
    { w \in 1..Len(workers) : workers[w].pc \in {"started", "analyzing"} }

\* the threads whose after(0, ...) callback has not run yet
PendingCallbacks ==
    { w \in 1..Len(workers) :
          workers[w].pc \in {"complete_pending", "error_pending"} }

InitGui ==
    /\ ParserIdle
    /\ pc = "gui"
    /\ upload = None
    /\ validation = None
    /\ StoreEmpty
    /\ GuiInit

\* _browse_file: the dialog returns a path, or "" when it is cancelled
BrowseFile ==
    /\ pc = "gui"
    /\ \E filepath \in GuiFiles \cup {<<>>} :
           IF filepath # <<>>
           THEN gui' = [gui EXCEPT !.dump_path = Some(filepath),
                                   !.analyze_btn = "normal"]
           ELSE gui' = gui
    /\ UNCHANGED <<parserVars, pc, upload, validation, storeVars, workers,
                   exports>>

\* a click on Analyze: _start_analysis
StartAnalysis ==
    /\ pc = "gui"
    /\ gui.analyze_btn = "normal"
    /\ Len(workers) < MaxAnalyses
    /\ IF MayStart(gui)
       THEN /\ gui' = [gui EXCEPT !.is_analyzing = TRUE,
                                  !.analyze_btn = "disabled",
                                  !.export_btn = "disabled",
                                  !.open_folder_btn = "disabled"]
            /\ workers' = Append(workers, [pc |-> "started", path |-> None])
       ELSE UNCHANGED <<gui, workers>>
    /\ UNCHANGED <<parserVars, pc, upload, validation, storeVars, exports>>

\* _run_analysis on its thread: DumpAnalyzer(self.dump_path)
WorkerRead(w) ==
    /\ pc = "gui"
    /\ workers[w].pc = "started"
    /\ workers' = [workers EXCEPT ![w] = [pc |-> "analyzing",
                                          path |-> gui.dump_path]]
    /\ UNCHANGED <<parserVars, pc, upload, validation, storeVars, gui,
                   exports>>

\* _run_analysis on its thread: analyze() returns an analysis of the file
\* (success, or failure when the file is gone) which is stored in
\* self.analysis_result, or it raises; then the callback is handed over
WorkerAnalyze(w) ==
    /\ pc = "gui"
    /\ workers[w].pc = "analyzing"
    /\ \E outcome \in {"success", "not_found", "raised"} :
           IF outcome = "raised"
           THEN /\ workers' = [workers EXCEPT ![w].pc = "error_pending"]
                /\ gui' = gui
           ELSE /\ workers' = [workers EXCEPT ![w].pc = "complete_pending"]
                /\ gui' = [gui EXCEPT !.analysis_result =
                              Some([dump_file |-> Get(workers[w].path),
                                    success |-> outcome = "success"])]
    /\ UNCHANGED <<parserVars, pc, upload, validation, storeVars, exports>>

\* _analysis_complete on the main thread
AnalysisComplete(w) ==
    /\ pc = "gui"
    /\ workers[w].pc = "complete_pending"
    /\ workers' = [workers EXCEPT ![w].pc = "finished"]
    /\ gui' = IF IsSome(gui.analysis_result)
                 /\ Get(gui.analysis_result).success
              THEN [gui EXCEPT !.is_analyzing = FALSE,
                               !.analyze_btn = "normal",
                               !.export_btn = "normal"]
              ELSE [gui EXCEPT !.is_analyzing = FALSE,
                               !.analyze_btn = "normal"]
    /\ UNCHANGED <<parserVars, pc, upload, validation, storeVars, exports>>

\* _analysis_error on the main thread
AnalysisError(w) ==
    /\ pc = "gui"
    /\ workers[w].pc = "error_pending"
    /\ workers' = [workers EXCEPT ![w].pc = "finished"]
    /\ gui' = [gui EXCEPT !.is_analyzing = FALSE, !.analyze_btn = "normal"]
    /\ UNCHANGED <<parserVars, pc, upload, validation, storeVars, exports>>

\* a click on Export ZIP: _export_zip; the save dialog keeps the default
\* name or is cancelled
ExportZip ==
    /\ pc = "gui"
    /\ gui.export_btn = "normal"
    /\ \E saved \in BOOLEAN :
           IF IsSome(gui.analysis_result) /\ saved
           THEN /\ exports' = exports \cup
                       { [name |-> DefaultZipName(Get(gui.dump_path)),
                          dump_path |-> Get(gui.dump_path),
                          analysis |-> Get(gui.analysis_result)] }
                /\ gui' = [gui EXCEPT
                       !.zip_path = Some(DefaultZipName(Get(gui.dump_path))),
                       !.open_folder_btn = "normal"]
           ELSE UNCHANGED <<gui, exports>>
    /\ UNCHANGED <<parserVars, pc, upload, validation, storeVars, workers>>

NextGui ==
    \/ BrowseFile
    \/ StartAnalysis
    \/ \E w \in 1..Len(workers) : WorkerRead(w)
    \/ \E w \in 1..Len(workers) : WorkerAnalyze(w)
    \/ \E w \in 1..Len(workers) : AnalysisComplete(w)
    \/ \E w \in 1..Len(workers) : AnalysisError(w)
    \/ ExportZip

SpecGui == InitGui /\ [][NextGui]_vars

C26_ExportMatchesSelection ==
    \A e \in exports :
        /\ e.analysis.dump_file = e.dump_path
        /\ e.name = DefaultZipName(e.analysis.dump_file)
        /\ e.analysis.success

\* to_dict of an Optional component: None, or a dict of its fields (the
\* validator looks at none of them, the text fields stand for all)
ComponentToDict(component, keys) ==
    IF IsSome(component)
    THEN JObj([k \in keys |-> JStr(<<k>>)])
    ELSE JNull

\* AnalysisMetadata.to_dict, the fields with text values
MetadataToDict(metadata) ==
    JObj([k \in {"tool_name", "tool_version", "analysis_timestamp"} |->
             IF k = "tool_name" THEN ToolName
             ELSE IF k = "tool_version" THEN JStr(<<"1.0.0">>)
             ELSE JStr(metadata.analysis_timestamp)])

\* CompleteAnalysis.to_dict, as json.loads reads analysis.json back
AnalysisToDict(analysis) ==
    JObj([k \in {"metadata", "success", "error", "system_info",
                 "crash_summary", "bugcheck_analysis", "stack_trace",
                 "drivers"} |->
             IF k = "metadata" THEN MetadataToDict(analysis.metadata)
             ELSE IF k = "success" THEN JBool(analysis.success)
             ELSE IF k = "error"
                  THEN (IF IsSome(analysis.error) THEN JStr(<<"error">>)
                        ELSE JNull)
             ELSE IF k = "system_info"
                  THEN ComponentToDict(analysis.system_info,
                                       {"os_version", "architecture"})
             ELSE IF k = "crash_summary"
                  THEN ComponentToDict(analysis.crash_summary,
                                       {"bugcheck_code", "bugcheck_name"})
             ELSE IF k = "bugcheck_analysis"
                  THEN ComponentToDict(analysis.bugcheck_analysis,
                                       {"code_hex", "name", "category"})
             ELSE IF k = "stack_trace"
                  THEN ComponentToDict(analysis.stack_trace, {"note"})
             ELSE ComponentToDict(analysis.drivers, {"extraction_method"})])

\* the archive create_analysis_zip writes for an analysis, as an upload of
\* a size within the validator's limit
ArchiveUpload(analysis) ==
    [max_size_bytes |-> MaxUploadSize, size |-> MaxUploadSize,
     content |-> [zip |-> TRUE, members |-> ArchiveMembers(analysis),
                  analysis |-> [kind |-> "json",
                                value |-> AnalysisToDict(analysis)]]]

\* C27: every archive that analyze_dump emits (every analysis with success
\* = true) is accepted by the backend's ZipValidator.validate_and_extract
\* when it is within the size limit: the analysis.json the parser tool
\* writes satisfies the validator's required-structure checks.
C27_ArchiveAccepted ==
    (pc = "done" /\ IsSome(zip_path)) =>
        validate_and_extract(MaxUploadSize, ArchiveUpload(Get(result))).exc
            = "none"

(***************************************************************************)
(* The pipeline run on dumps that hold one name of the reputation table,   *)
(* in the table's spelling, in lower case and with an upper-case stem.     *)
(***************************************************************************)
\* the name with the letters before '.sys' in upper case
UpperStem(name) ==
    [k \in 1..Len(name) |->
        IF k <= Len(name) - 4 /\ name[k] >= 97 /\ name[k] <= 122
        THEN name[k] - 32 ELSE name[k]]

\* the spellings of a key that a scan can recover
Spellings(key) == {key, Lower(key), UpperStem(key)}

KeyFiles ==
    { File(4200, BasePart @@ Put(TextOffset, n)) :
          n \in UNION { Spellings(e[1]) : e \in KNOWN_PROBLEMATIC_DRIVERS } }

InitScavenge ==
    /\ fs \in KeyFiles
    /\ dump_path = <<"crash.dmp">>
    /\ create_zip \in BOOLEAN
    /\ pc = "start"
    /\ parser_notes = <<>>
    /\ system_info = None
    /\ crash_summary = None
    /\ bugcheck_analysis = None
    /\ stack_trace = None
    /\ drivers = None
    /\ result = None
    /\ zip_path = None
    /\ archives = {}
    /\ bc_args = None
    /\ open_handles = {}
    /\ upload = None
    /\ validation = None
    /\ StoreEmpty
    /\ GuiInit

SpecScavenge == InitScavenge /\ [][Next]_vars

\* C28: every entry of KNOWN_PROBLEMATIC_DRIVERS is reachable: for every key
\* k of the table, a scavenged module whose name equals k in any letter case
\* is classified is_problematic = true with the table's reason for k.
C28_EveryEntryReachable ==
    IsSome(drivers) =>
        \A e \in KNOWN_PROBLEMATIC_DRIVERS :
            \A j \in 1..Len(Get(drivers).drivers) :
                LET d == Get(drivers).drivers[j]
                IN  Lower(d.name) = Lower(e[1]) =>
                        /\ d.is_problematic
                        /\ d.problematic_reason = Some(e[2])

\* the positions of the groups of BUGCHECK_CATEGORIES that list the code
GroupsListing(code) ==
    { k \in 1..Len(BUGCHECK_CATEGORIES) : code \in BUGCHECK_CATEGORIES[k][2] }

\* C29: the groups of BUGCHECK_CATEGORIES are pairwise disjoint, so
\* get_category(c) is the unique group that lists c and does not depend on
\* the table order; each of the nine category names is returned for at
\* least one code, and "Other" exactly for the codes listed in no group.
C29_CategoriesDisjoint ==
    (pc = "called") =>
        LET a == Get(bugcheck_analysis)
            listing == GroupsListing(a.code)
        IN  /\ Cardinality(listing) <= 1
            /\ \A k \in listing : a.category = BUGCHECK_CATEGORIES[k][1]
            /\ (a.category = "Other") <=> (listing = {})
            /\ \A k \in 1..Len(BUGCHECK_CATEGORIES) :
                   \E c \in BUGCHECK_CATEGORIES[k][2] :
                       get_category(c) = BUGCHECK_CATEGORIES[k][1]

(***************************************************************************)
(* The error code of a rejected upload                                     *)
(* (src/backend/src/models/error_codes.py, api/routes.py).                 *)
(* A message is the sequence of its pieces; its lower-case text is the     *)
(* sequence of the words of those pieces, and a phrase is in the text      *)
(* when its words are consecutive words of the text.                       *)
(***************************************************************************)
\* piece.lower(), word by word, of the pieces validate_and_extract raises
LowerWords(piece) ==
    CASE piece = "File too large: " -> <<"file", "too", "large", ":">>
      [] piece = "{size_mb:.2f} MB (max: {max_mb:.2f} MB)" ->
             <<"0.00", "mb", "(", "max", ":", "0.00", "mb", ")">>
      [] piece = "Invalid ZIP file format" ->
             <<"invalid", "zip", "file", "format">>
      [] piece = "Invalid JSON in analysis.json: " ->
             <<"invalid", "json", "in", "analysis.json", ":">>
      [] piece = "Failed to extract data: " ->
             <<"failed", "to", "extract", "data", ":">>
      [] piece = "Missing required file: " ->
             <<"missing", "required", "file", ":">>
      [] piece = "Missing required field: " ->
             <<"missing", "required", "field", ":">>
      [] piece = "Missing tool_name in metadata" ->
             <<"missing", "tool_name", "in", "metadata">>
      [] piece = "No crash data found. Both crash_summary and bugcheck_analysis are missing." ->
             <<"no", "crash", "data", "found", ".", "both", "crash_summary",
               "and", "bugcheck_analysis", "are", "missing", ".">>
      [] piece = "argument is not iterable" ->
             <<"argument", "is", "not", "iterable">>
      [] piece = "object has no attribute 'get'" ->
             <<"object", "has", "no", "attribute", "'get'">>
      [] piece = "Bad CRC-32 for file 'analysis.json'" ->
             <<"bad", "crc-32", "for", "file", "'analysis.json'">>
      [] piece = "'utf-8' codec can't decode byte" ->
             <<"'utf-8'", "codec", "can't", "decode", "byte">>
      [] piece = "Expecting value" -> <<"expecting", "value">>
      [] piece = "validation error for AnalysisDataModel" ->
             <<"validation", "error", "for", "analysisdatamodel">>
      [] OTHER -> <<piece>>

\* error.lower() of zip_validation_error
RECURSIVE error_lower(_)
error_lower(error) ==
    IF error = <<>> THEN <<>>
    ELSE LowerWords(Head(error)) \o error_lower(Tail(error))

\* phrase in text
PhraseIn(phrase, text) ==
    \E k \in 0..(Len(text) - Len(phrase)) :
        \A j \in 1..Len(phrase) : text[k + j] = phrase[j]

\* zip_validation_error(error).code: the first test that matches
zip_validation_error(error) ==
    LET text == error_lower(error)
    IN  IF PhraseIn(<<"missing", "required", "file">>, text)
        THEN "MISSING_ANALYSIS_JSON"
        ELSE IF PhraseIn(<<"invalid", "zip">>, text) THEN "INVALID_ZIP"
        ELSE IF PhraseIn(<<"invalid", "json">>, text) THEN "INVALID_JSON"
        ELSE IF PhraseIn(<<"missing">>, text)
                \/ PhraseIn(<<"structure">>, text)
        THEN "INVALID_STRUCTURE"
        ELSE "INVALID_ZIP"

\* the error_code of the /analyze response to a rejected upload
AnalyzeErrorCode == zip_validation_error(Get(validation).msg)

\* C30: the error_code of a rejected upload identifies the failing check:
\* FILE_TOO_LARGE for an upload over the size limit, INVALID_ZIP for a
\* non-ZIP, MISSING_ANALYSIS_JSON for a ZIP without analysis.json,
\* INVALID_JSON for unparsable JSON, INVALID_STRUCTURE for missing required
\* fields or crash data.
C30_ErrorCodeNamesCheck ==
    (pc = "validated" /\ Get(validation).exc = ZVE) =>
        LET u == Get(upload)
            c == u.content
            code == AnalyzeErrorCode
        IN  IF u.size > u.max_size_bytes THEN code = "FILE_TOO_LARGE"
            ELSE IF ~c.zip THEN code = "INVALID_ZIP"
            ELSE IF "analysis.json" \notin c.members
            THEN code = "MISSING_ANALYSIS_JSON"
            ELSE IF c.analysis.kind = "not_json" THEN code = "INVALID_JSON"
            ELSE IF c.analysis.kind = "json"
                    /\ validate_analysis_structure(c.analysis.value).exc = ZVE
            THEN code = "INVALID_STRUCTURE"
            ELSE TRUE

====
